---- MODULE Spec2Model ----
(***************************************************************************)
(* Guest-list reconciliation (CSV import in four modes) and the RSVP flow  *)
(* of the RSVP backend.  Text values are sequences of one-character        *)
(* strings so that trimming, case folding and digit stripping are          *)
(* computed, not assumed.                                                  *)
(***************************************************************************)
EXTENDS Integers, Sequences, FiniteSets, TLC

(***************************************************************************)
(* Bounds of the model.                                                    *)
(***************************************************************************)
\* Rows of one uploaded file.
MaxRows == 2
\* Import requests handled in one behaviour.
MaxRuns == 2
\* RSVP submissions handled in one behaviour.
MaxRsvp == 1

(***************************************************************************)
(* Characters and strings.                                                 *)
(***************************************************************************)
LowerLetters ==
    << "a","b","c","d","e","f","g","h","i","j","k","l","m",
       "n","o","p","q","r","s","t","u","v","w","x","y","z" >>

UpperLetters ==
    << "A","B","C","D","E","F","G","H","I","J","K","L","M",
       "N","O","P","Q","R","S","T","U","V","W","X","Y","Z" >>

Digits == {"0","1","2","3","4","5","6","7","8","9"}

Whitespace == {" "}

InTable(c, tbl) == \E i \in 1..Len(tbl) : tbl[i] = c

\* str.upper() / str.lower() on one character
UpperMap == [c \in {LowerLetters[i] : i \in 1..26} |->
                UpperLetters[CHOOSE i \in 1..26 : LowerLetters[i] = c]]

LowerMap == [c \in {UpperLetters[i] : i \in 1..26} |->
                LowerLetters[CHOOSE i \in 1..26 : UpperLetters[i] = c]]

UpperChar(c) == IF c \in DOMAIN UpperMap THEN UpperMap[c] ELSE c

LowerChar(c) == IF c \in DOMAIN LowerMap THEN LowerMap[c] ELSE c

Upper(s) == [i \in 1..Len(s) |-> UpperChar(s[i])]

Lower(s) == [i \in 1..Len(s) |-> LowerChar(s[i])]

RECURSIVE LStrip(_)
LStrip(s) == IF s # <<>> /\ Head(s) \in Whitespace THEN LStrip(Tail(s)) ELSE s

RECURSIVE RStrip(_)
RStrip(s) ==
    IF s # <<>> /\ s[Len(s)] \in Whitespace THEN RStrip(SubSeq(s, 1, Len(s) - 1)) ELSE s

\* str.strip()
Strip(s) == RStrip(LStrip(s))

IsDigit(c) == c \in Digits

\* The absent value (Python None, SQL NULL).
None == <<"None">>

\* _safe_strip: None becomes "", anything else is trimmed
safe_strip(v) == IF v = None THEN <<>> ELSE Strip(v)

\* a variant that also drops the zeros a number starts with
normalize_phone_drops_leading_zero(phone_str) ==
    IF phone_str = None \/ phone_str = <<>>
    THEN <<>>
    ELSE IF SelectSeq(Strip(phone_str), IsDigit) # <<>> /\ Head(SelectSeq(Strip(phone_str), IsDigit)) = "0"
    THEN Tail(SelectSeq(Strip(phone_str), IsDigit))
    ELSE SelectSeq(Strip(phone_str), IsDigit)

\* a variant that keeps the plus sign of an international number
normalize_phone_keeps_plus(phone_str) ==
    IF phone_str = None \/ phone_str = <<>>
    THEN <<>>
    ELSE SelectSeq(Strip(phone_str), LAMBDA c : IsDigit(c) \/ c = "+")

\* normalize_phone: "" for a falsy input, otherwise the digits of the trimmed input
normalize_phone(phone_str) ==
    IF phone_str = None \/ phone_str = <<>>
    THEN <<>>
    ELSE SelectSeq(Strip(phone_str), IsDigit)

\* _normalize_email: trimmed and lower-cased
normalize_email(email) == Lower(safe_strip(email))

(***************************************************************************)
(* Literals of the source.                                                 *)
(***************************************************************************)
S_en == <<"e","n">>
S_es == <<"e","s">>
S_ro == <<"r","o">>
S_full == <<"f","u","l","l">>
S_party == <<"p","a","r","t","y">>
S_ceremony == <<"c","e","r","e","m","o","n","y">>
S_bride == <<"b","r","i","d","e">>
S_groom == <<"g","r","o","o","m">>
S_INVITAD == <<"I","N","V","I","T","A","D">>
S_BORRAR_TODO == <<"B","O","R","R","A","R"," ","T","O","D","O">>

LanguageEnum == {S_en, S_es, S_ro}
InviteTypeEnum == {S_full, S_party}
SideEnum == {S_bride, S_groom}

\* import_mode
ADD_ONLY == "ADD_ONLY"
UPSERT == "UPSERT"
SYNC == "SYNC"
REPLACE == "REPLACE"
import_mode == {ADD_ONLY, UPSERT, SYNC, REPLACE}

(***************************************************************************)
(* Parsing helpers of the import service.                                  *)
(***************************************************************************)
DigitValue(c) == CHOOSE n \in 0..9 : <<"0","1","2","3","4","5","6","7","8","9">>[n + 1] = c

RECURSIVE NatOf(_)
NatOf(s) == IF s = <<>> THEN 0 ELSE 10 * NatOf(SubSeq(s, 1, Len(s) - 1)) + DigitValue(s[Len(s)])

AllDigits(s) == s # <<>> /\ \A i \in 1..Len(s) : IsDigit(s[i])

\* _parse_int: int(value) of the trimmed text, the default when empty or malformed
parse_int(value, default) ==
    LET v == safe_strip(value) IN
    IF v = <<>> THEN default
    ELSE IF AllDigits(v) THEN NatOf(v)
    ELSE IF Head(v) = "+" /\ AllDigits(Tail(v)) THEN NatOf(Tail(v))
    ELSE IF Head(v) = "-" /\ AllDigits(Tail(v)) THEN 0 - NatOf(Tail(v))
    ELSE default

\* _map_row_fields: one csv row (a cell per column) to the typed fields
map_row_fields(row) ==
    LET parsed == parse_int(safe_strip(row.max_accomp), 0) IN
    [ full_name    |-> safe_strip(row.full_name),
      email        |-> normalize_email(safe_strip(row.email)),
      phone_raw    |-> safe_strip(row.phone),
      phone        |-> normalize_phone(safe_strip(row.phone)),
      language     |-> safe_strip(row.language),
      side         |-> safe_strip(row.side),
      relationship |-> safe_strip(row.relationship),
      group_id     |-> safe_strip(row.group_id),
      max_accomp   |-> IF parsed < 0 THEN 0 ELSE parsed,
      invite_type  |-> safe_strip(row.invite_type),
      guest_code   |-> safe_strip(row.guest_code) ]

\* variant: the legacy value 'ceremony' taken for the reception alone
normalize_invite_type_ceremony_is_party(raw) ==
    IF Lower(Strip(IF raw = None THEN <<>> ELSE raw)) = S_full THEN S_full ELSE S_party

\* normalize_invite_type
normalize_invite_type(raw) ==
    LET val == Lower(Strip(IF raw = None THEN <<>> ELSE raw)) IN
    IF val = S_full THEN S_full
    ELSE IF val = S_party THEN S_party
    ELSE IF val = S_ceremony THEN S_full
    ELSE S_party

\* _resolve_enums: language, invite type and side of a row, with their fallbacks
resolve_enums(data) ==
    LET lang_str == Lower(IF data.language = <<>> THEN S_en ELSE data.language)
        norm_type_str == normalize_invite_type(data.invite_type)
        side_str == Lower(data.side)
    IN  [ lang |-> IF lang_str \in LanguageEnum THEN lang_str ELSE S_en,
          type |-> IF norm_type_str \in InviteTypeEnum THEN norm_type_str ELSE S_full,
          side |-> IF side_str \in SideEnum THEN side_str ELSE None ]

(***************************************************************************)
(* Guest codes.                                                            *)
(***************************************************************************)
\* Suffixes the random source may draw (4 characters of A-Z0-9 each).
SuffixDraws == { <<"0","0","0","0">>, <<"0","0","0","1">> }

IsAsciiUpper(c) == InTable(c, UpperLetters)

Truthy(v) == v # None /\ v # <<>>

\* _slug7: up to 7 upper-case letters of the name, "INVITAD" when none is left
slug7(full_name) ==
    LET txt == Upper(IF full_name = None THEN <<>> ELSE full_name)
        only_letters == SelectSeq(txt, IsAsciiUpper)
        cut == SubSeq(only_letters, 1, IF Len(only_letters) < 7 THEN Len(only_letters) ELSE 7)
    IN  IF cut = <<>> THEN S_INVITAD ELSE cut

\* the code _generate_guest_code builds from one drawn suffix
GuestCodeOf(full_name, suffix) == slug7(full_name) \o <<"-">> \o suffix

\* get_by_guest_code: the first stored guest whose code equals the trimmed argument;
\* here, whether there is one.  The query reads the rows of the table: objects
\* added to the session and not yet flushed are not among them.
get_by_guest_code(rows, code) ==
    Truthy(code) /\ \E i \in 1..Len(rows) : rows[i].guest_code = Strip(code)

\* variant: the uniqueness check looks at the first stored guest only
generate_guest_code_returns_first_row_only(full_name, rows, suffix) ==
    ~ (rows # <<>> /\ rows[1].guest_code = GuestCodeOf(full_name, suffix))

\* _generate_guest_code: draws suffixes until is_unique accepts the code, so the
\* value returned for a final draw `suffix` is defined when that code is unique.
generate_guest_code_returns(full_name, rows, suffix) ==
    ~ get_by_guest_code(rows, GuestCodeOf(full_name, suffix))

(***************************************************************************)
(* The store: guests in primary-key order, companions and RSVP log rows.   *)
(***************************************************************************)
\* a variant of the constructor call that passes the phone as it is written
NewGuest_raw_phone(id, data, enums, final_code) ==
    [ id           |-> id,
      guest_code   |-> final_code,
      full_name    |-> data.full_name,
      email        |-> IF data.email = <<>> THEN None ELSE data.email,
      phone        |-> data.phone_raw,
      language     |-> enums.lang,
      side         |-> enums.side,
      relationship |-> IF data.relationship = <<>> THEN None ELSE data.relationship,
      group_id     |-> IF data.group_id = <<>> THEN None ELSE data.group_id,
      max_accomp   |-> data.max_accomp,
      invite_type  |-> enums.type,
      confirmed    |-> None,
      confirmed_at |-> None,
      allergies    |-> None,
      notes        |-> None,
      num_adults   |-> 0,
      num_children |-> 0 ]

\* Guest(...) as the import service constructs it; the RSVP columns keep
\* their column defaults.
NewGuest(id, data, enums, final_code) ==
    [ id           |-> id,
      guest_code   |-> final_code,
      full_name    |-> data.full_name,
      email        |-> IF data.email = <<>> THEN None ELSE data.email,
      phone        |-> data.phone,
      language     |-> enums.lang,
      side         |-> enums.side,
      relationship |-> IF data.relationship = <<>> THEN None ELSE data.relationship,
      group_id     |-> IF data.group_id = <<>> THEN None ELSE data.group_id,
      max_accomp   |-> data.max_accomp,
      invite_type  |-> enums.type,
      confirmed    |-> None,
      confirmed_at |-> None,
      allergies    |-> None,
      notes        |-> None,
      num_adults   |-> 0,
      num_children |-> 0 ]

OrNone(v) == IF v = None THEN <<>> ELSE v

RECURSIVE IndexRows(_, _)
\* _build_db_indexes: three dictionaries over every stored guest, a later guest
\* replacing an earlier one under the same key
IndexRows(rows, acc) ==
    IF rows = <<>> THEN acc
    ELSE LET g == Head(rows)
             p == normalize_phone(OrNone(g.phone))
             e == normalize_email(OrNone(g.email))
             withCode == IF Truthy(g.guest_code)
                         THEN (Upper(Strip(g.guest_code)) :> g.id) @@ acc.code_to_id
                         ELSE acc.code_to_id
             withPhone == IF p # <<>> THEN (p :> g.id) @@ acc.phone_to_id ELSE acc.phone_to_id
             withEmail == IF e # <<>> THEN (e :> g.id) @@ acc.email_to_id ELSE acc.email_to_id
         IN  IndexRows(Tail(rows),
                       [code_to_id |-> withCode, phone_to_id |-> withPhone, email_to_id |-> withEmail])

EmptyDict == [k \in {} |-> 0]

build_db_indexes(rows) ==
    IndexRows(rows, [code_to_id |-> EmptyDict, phone_to_id |-> EmptyDict, email_to_id |-> EmptyDict])

(***************************************************************************)
(* Validation and planning.                                                *)
(***************************************************************************)
import_error(row_number, field, code, message, value) ==
    [row_number |-> row_number, field |-> field, code |-> code, message |-> message, value |-> value]

EmptyReport ==
    [ mode |-> "", dry_run |-> TRUE, created_count |-> 0, updated_count |-> 0,
      skipped_count |-> 0, rejected_count |-> 0, errors |-> <<>> ]

\* a variant that counts the rejection and keeps no entry of it
Reject_count_only(report, err) ==
    [report EXCEPT !.rejected_count = @ + 1]

Reject(report, err) ==
    [report EXCEPT !.errors = Append(@, err), !.rejected_count = @ + 1]

\* a variant without the rule on emails repeated in the file
RowError_no_email_rule(idx, data, seen_phones, seen_emails) ==
    IF data.full_name = <<>>
    THEN << import_error(idx, "full_name", "MISSING_NAME", "El nombre es obligatorio.", <<>>) >>
    ELSE IF data.phone = <<>>
    THEN << import_error(idx, "phone", "INVALID_PHONE", "Telefono vacio o invalido (sin digitos).", data.phone_raw) >>
    ELSE IF Len(data.phone) < 6
    THEN << import_error(idx, "phone", "INVALID_PHONE", "Telefono muy corto (min 6 digitos).", data.phone_raw) >>
    ELSE IF data.phone \in seen_phones
    THEN << import_error(idx, "phone", "DUP_PHONE_IN_FILE", "Telefono duplicado en este archivo.", data.phone_raw) >>
    ELSE <<>>

\* a variant that looks for a repeated phone before it looks at the name
RowError_phone_before_name(idx, data, seen_phones, seen_emails) ==
    IF data.phone # <<>> /\ data.phone \in seen_phones
    THEN << import_error(idx, "phone", "DUP_PHONE_IN_FILE", "Telefono duplicado en este archivo.", data.phone_raw) >>
    ELSE IF data.full_name = <<>>
    THEN << import_error(idx, "full_name", "MISSING_NAME", "El nombre es obligatorio.", <<>>) >>
    ELSE IF data.phone = <<>>
    THEN << import_error(idx, "phone", "INVALID_PHONE", "Telefono vacio o invalido (sin digitos).", data.phone_raw) >>
    ELSE IF Len(data.phone) < 6
    THEN << import_error(idx, "phone", "INVALID_PHONE", "Telefono muy corto (min 6 digitos).", data.phone_raw) >>
    ELSE IF data.email # <<>> /\ data.email \in seen_emails
    THEN << import_error(idx, "email", "DUP_EMAIL_IN_FILE", "Email duplicado en este archivo.", data.email) >>
    ELSE <<>>

\* the first validation rule a row fails, as a list holding its error entry; the
\* empty list when the row passes
RowError(idx, data, seen_phones, seen_emails) ==
    IF data.full_name = <<>>
    THEN << import_error(idx, "full_name", "MISSING_NAME", "El nombre es obligatorio.", <<>>) >>
    ELSE IF data.phone = <<>>
    THEN << import_error(idx, "phone", "INVALID_PHONE", "Telefono vacio o invalido (sin digitos).", data.phone_raw) >>
    ELSE IF Len(data.phone) < 6
    THEN << import_error(idx, "phone", "INVALID_PHONE", "Telefono muy corto (min 6 digitos).", data.phone_raw) >>
    ELSE IF data.phone \in seen_phones
    THEN << import_error(idx, "phone", "DUP_PHONE_IN_FILE", "Telefono duplicado en este archivo.", data.phone_raw) >>
    ELSE IF data.email # <<>> /\ data.email \in seen_emails
    THEN << import_error(idx, "email", "DUP_EMAIL_IN_FILE", "Email duplicado en este archivo.", data.email) >>
    ELSE <<>>

RECURSIVE PlanRows(_, _, _)
PlanRows(rows, idx, acc) ==
    IF rows = <<>> THEN acc
    ELSE LET data == map_row_fields(Head(rows))
             err == RowError(idx, data, acc.seen_phones, acc.seen_emails)
         IN  IF err # <<>>
             THEN PlanRows(Tail(rows), idx + 1, [acc EXCEPT !.report = Reject(@, err[1])])
             ELSE PlanRows(Tail(rows), idx + 1,
                    [acc EXCEPT !.seen_phones = @ \cup {data.phone},
                                !.seen_emails = IF data.email # <<>> THEN @ \cup {data.email} ELSE @,
                                !.planned = Append(@, [row_number |-> idx, data |-> data])])

\* _validate_and_plan: the accepted rows, numbered from 2, and the report of
\* the rejected ones
validate_and_plan(rows) ==
    LET r == PlanRows(rows, 2, [seen_phones |-> {}, seen_emails |-> {},
                                planned |-> <<>>, report |-> EmptyReport])
    IN  [planned |-> r.planned, report |-> r.report]

(***************************************************************************)
(* Applying a plan.  A database session `db` holds the table rows (with    *)
(* the changes made to loaded guests), the guests added and not yet        *)
(* inserted, the companions, the RSVP log and the next primary key.        *)
(***************************************************************************)
NoId == 0
Placeholder == 0 - 1

HasKey(d, k) == k \in DOMAIN d

DictSet(d, k, v) == (k :> v) @@ d

RECURSIVE AssignIds(_, _)
AssignIds(pending, id) ==
    IF pending = <<>> THEN <<>>
    ELSE << [Head(pending) EXCEPT !.id = id] >> \o AssignIds(Tail(pending), id + 1)

\* db.commit(): the added guests are inserted in the order they were added
commit(db) ==
    [db EXCEPT !.rows = @ \o AssignIds(db.pending, db.nextId),
               !.pending = <<>>,
               !.nextId = @ + Len(db.pending)]

\* db.query(Guest).get(id): the loaded guest's position in the table, 0 when absent
RowOfId(rows, id) ==
    IF \E i \in 1..Len(rows) : rows[i].id = id
    THEN CHOOSE i \in 1..Len(rows) : rows[i].id = id
    ELSE 0

\* csv_code = (data.get("guest_code") or "").strip().upper()
CsvCode(data) == Upper(Strip(data.guest_code))

\* a variant of the cascade that looks the row up by phone only
MatchRow_phone_only(st, data) ==
    IF HasKey(st.phone_to_id, data.phone)
    THEN [existing_id |-> st.phone_to_id[data.phone], matched_by_code |-> FALSE]
    ELSE [existing_id |-> NoId, matched_by_code |-> FALSE]

\* the cascade of matching: supplied code first, canonical phone second
MatchRow(st, data) ==
    LET csv_code == CsvCode(data) IN
    IF csv_code # <<>> /\ HasKey(st.code_to_id, csv_code)
    THEN [existing_id |-> st.code_to_id[csv_code], matched_by_code |-> TRUE]
    ELSE IF HasKey(st.phone_to_id, data.phone)
    THEN [existing_id |-> st.phone_to_id[data.phone], matched_by_code |-> FALSE]
    ELSE [existing_id |-> NoId, matched_by_code |-> FALSE]

EmailConflict(item, message) ==
    import_error(item.row_number, "email", "EMAIL_CONFLICT", message, item.data.email)

\* the code of a guest about to be created: the supplied one, else a generated one
FinalCode(st, data, tape) ==
    IF CsvCode(data) # <<>> THEN CsvCode(data)
    ELSE GuestCodeOf(data.full_name, tape[st.draws + 1])

FinalCodeReturns(st, data, tape) ==
    CsvCode(data) # <<>>
        \/ generate_guest_code_returns(data.full_name, st.db.rows, tape[st.draws + 1])

\* one iteration of the loop of _apply_add_only
add_only_row(st, item, tape) ==
    LET data == item.data
        csv_code == CsvCode(data)
        m == MatchRow(st, data)
    IN  IF m.existing_id # NoId
        THEN [st EXCEPT !.report.skipped_count = @ + 1]
        ELSE IF data.email # <<>> /\ HasKey(st.email_to_id, data.email)
        THEN [st EXCEPT !.report = Reject(@, EmailConflict(item, "Email ya pertenece a otro invitado."))]
        ELSE [st EXCEPT
                !.db.pending = Append(@, NewGuest(NoId, data, resolve_enums(data), FinalCode(st, data, tape))),
                !.ok = @ /\ FinalCodeReturns(st, data, tape),
                !.draws = IF csv_code = <<>> THEN @ + 1 ELSE @,
                !.phone_to_id = DictSet(@, data.phone, Placeholder),
                !.code_to_id = IF csv_code # <<>> THEN DictSet(@, csv_code, Placeholder) ELSE @,
                !.report.created_count = @ + 1]

\* a variant of the UPDATE branch that corrects the phone on every match
UpdateGuest_any_match_phone(guest, data, enums, matched_by_code) ==
    [guest EXCEPT
        !.full_name = data.full_name,
        !.email = IF data.email # <<>> THEN data.email ELSE @,
        !.phone = IF @ # data.phone THEN data.phone ELSE @,
        !.language = enums.lang,
        !.side = IF enums.side # None THEN enums.side ELSE @,
        !.relationship = IF data.relationship # <<>> THEN data.relationship ELSE @,
        !.group_id = IF data.group_id # <<>> THEN data.group_id ELSE @,
        !.max_accomp = data.max_accomp,
        !.invite_type = enums.type]

\* a variant of the UPDATE branch that also clears the guest's allergies and notes
UpdateGuest_clears_rsvp(guest, data, enums, matched_by_code) ==
    [guest EXCEPT
        !.full_name = data.full_name,
        !.email = IF data.email # <<>> THEN data.email ELSE @,
        !.phone = IF matched_by_code /\ @ # data.phone THEN data.phone ELSE @,
        !.language = enums.lang,
        !.side = IF enums.side # None THEN enums.side ELSE @,
        !.relationship = IF data.relationship # <<>> THEN data.relationship ELSE @,
        !.group_id = IF data.group_id # <<>> THEN data.group_id ELSE @,
        !.max_accomp = data.max_accomp,
        !.invite_type = enums.type,
        !.allergies = None,
        !.notes = None]

\* a variant of the UPDATE branch that takes over the code the row supplies
UpdateGuest_takes_code(guest, data, enums, matched_by_code) ==
    [guest EXCEPT
        !.full_name = data.full_name,
        !.email = IF data.email # <<>> THEN data.email ELSE @,
        !.phone = IF matched_by_code /\ @ # data.phone THEN data.phone ELSE @,
        !.language = enums.lang,
        !.side = IF enums.side # None THEN enums.side ELSE @,
        !.relationship = IF data.relationship # <<>> THEN data.relationship ELSE @,
        !.group_id = IF data.group_id # <<>> THEN data.group_id ELSE @,
        !.max_accomp = data.max_accomp,
        !.invite_type = enums.type,
        !.guest_code = IF CsvCode(data) # <<>> THEN CsvCode(data) ELSE @]

\* the UPDATE branch of _apply_upsert: administrative columns only
UpdateGuest(guest, data, enums, matched_by_code) ==
    [guest EXCEPT
        !.full_name = data.full_name,
        !.email = IF data.email # <<>> THEN data.email ELSE @,
        !.phone = IF matched_by_code /\ @ # data.phone THEN data.phone ELSE @,
        !.language = enums.lang,
        !.side = IF enums.side # None THEN enums.side ELSE @,
        !.relationship = IF data.relationship # <<>> THEN data.relationship ELSE @,
        !.group_id = IF data.group_id # <<>> THEN data.group_id ELSE @,
        !.max_accomp = data.max_accomp,
        !.invite_type = enums.type]

\* a variant of the loop body that checks the email only of rows that create
upsert_row_email_unchecked_on_update(st, item, tape) ==
    LET data == item.data
        csv_code == CsvCode(data)
        m == MatchRow(st, data)
        final_code == FinalCode(st, data, tape)
        pos == RowOfId(st.db.rows, m.existing_id)
    IN  IF data.email # <<>> /\ HasKey(st.email_to_id, data.email) /\ m.existing_id = NoId
        THEN [st EXCEPT !.report = Reject(@, EmailConflict(item, "Email ya pertenece a otro invitado."))]
        ELSE IF m.existing_id = NoId
        THEN [st EXCEPT
                !.db.pending = Append(@, NewGuest(NoId, data, resolve_enums(data), final_code)),
                !.ok = @ /\ FinalCodeReturns(st, data, tape),
                !.draws = IF csv_code = <<>> THEN @ + 1 ELSE @,
                !.phone_to_id = DictSet(@, data.phone, Placeholder),
                !.code_to_id = IF final_code # <<>> THEN DictSet(@, Upper(final_code), Placeholder) ELSE @,
                !.report.created_count = @ + 1]
        ELSE IF pos = 0
        THEN st
        ELSE [st EXCEPT
                !.db.rows[pos] = UpdateGuest(@, data, resolve_enums(data), m.matched_by_code),
                !.phone_to_id = IF m.matched_by_code /\ st.db.rows[pos].phone # data.phone
                                THEN DictSet(@, data.phone, m.existing_id) ELSE @,
                !.report.updated_count = @ + 1]

\* one iteration of the loop of _apply_upsert
upsert_row(st, item, tape) ==
    LET data == item.data
        csv_code == CsvCode(data)
        m == MatchRow(st, data)
        final_code == FinalCode(st, data, tape)
        pos == RowOfId(st.db.rows, m.existing_id)
    IN  IF data.email # <<>> /\ HasKey(st.email_to_id, data.email) /\ m.existing_id = NoId
        THEN [st EXCEPT !.report = Reject(@, EmailConflict(item, "Email ya pertenece a otro invitado."))]
        ELSE IF data.email # <<>> /\ HasKey(st.email_to_id, data.email)
                /\ st.email_to_id[data.email] # m.existing_id
        THEN [st EXCEPT !.report =
                  Reject(@, EmailConflict(item, "Email ya pertenece a otro invitado (ID diferente)."))]
        ELSE IF m.existing_id = NoId
        THEN [st EXCEPT
                !.db.pending = Append(@, NewGuest(NoId, data, resolve_enums(data), final_code)),
                !.ok = @ /\ FinalCodeReturns(st, data, tape),
                !.draws = IF csv_code = <<>> THEN @ + 1 ELSE @,
                !.phone_to_id = DictSet(@, data.phone, Placeholder),
                !.code_to_id = IF final_code # <<>> THEN DictSet(@, Upper(final_code), Placeholder) ELSE @,
                !.report.created_count = @ + 1]
        ELSE IF pos = 0
        THEN st
        ELSE [st EXCEPT
                !.db.rows[pos] = UpdateGuest(@, data, resolve_enums(data), m.matched_by_code),
                !.phone_to_id = IF m.matched_by_code /\ st.db.rows[pos].phone # data.phone
                                THEN DictSet(@, data.phone, m.existing_id) ELSE @,
                !.report.updated_count = @ + 1]

RECURSIVE AddOnlyLoop(_, _, _)
AddOnlyLoop(st, plan, tape) ==
    IF plan = <<>> THEN st ELSE AddOnlyLoop(add_only_row(st, Head(plan), tape), Tail(plan), tape)

RECURSIVE UpsertLoop(_, _, _)
UpsertLoop(st, plan, tape) ==
    IF plan = <<>> THEN st ELSE UpsertLoop(upsert_row(st, Head(plan), tape), Tail(plan), tape)

\* the state a mode applier starts its loop in
LoopStart(db, report, draws, ok) ==
    LET ix == build_db_indexes(db.rows) IN
    [ db |-> db, report |-> report, draws |-> draws, ok |-> ok,
      code_to_id |-> ix.code_to_id, phone_to_id |-> ix.phone_to_id, email_to_id |-> ix.email_to_id ]

\* db.commit() after the loop of a mode applier
LoopCommitted(st) ==
    [db |-> commit(st.db), report |-> st.report, ok |-> st.ok, draws |-> st.draws]

\* _apply_add_only
apply_add_only(db, plan, report, tape) ==
    LoopCommitted(AddOnlyLoop(LoopStart(db, report, 0, TRUE), plan, tape))

\* _apply_upsert
apply_upsert(db, plan, report, tape) ==
    LoopCommitted(UpsertLoop(LoopStart(db, report, 0, TRUE), plan, tape))

PhonesInCsv(plan) == { plan[i].data.phone : i \in 1..Len(plan) }

\* a variant of the deletion test that looks up the stored phone as it is written
SyncDeletes_raw_phone(g, phones_in_csv) ==
    LET p == OrNone(g.phone) IN p = <<>> \/ p \notin phones_in_csv

\* the guests SYNC deletes: no canonical phone, or one that no planned row carries
SyncDeletes(g, phones_in_csv) ==
    LET p == normalize_phone(OrNone(g.phone)) IN p = <<>> \/ p \notin phones_in_csv

KeepsGuest(g, phones_in_csv) == ~ SyncDeletes(g, phones_in_csv)

\* db.delete(g) for every guest in `gone`, with the companions they own
delete_guests(db, gone) ==
    [db EXCEPT !.rows = SelectSeq(@, LAMBDA g : g.id \notin gone),
               !.companions = { c \in @ : c.guest_id \notin gone }]

\* the second half of _apply_sync: the deletions, committed
sync_deletions(up, phones_in_csv) ==
    LET gone == { up.db.rows[i].id : i \in { j \in 1..Len(up.db.rows) :
                                             SyncDeletes(up.db.rows[j], phones_in_csv) } }
    IN  [up EXCEPT !.db = commit(delete_guests(up.db, gone))]

\* _apply_sync
apply_sync(db, plan, report, tape) ==
    sync_deletions(apply_upsert(db, plan, report, tape), PhonesInCsv(plan))

\* a variant of the wipe that deletes the guests only
wipe_guests_only(db) == commit([db EXCEPT !.rows = <<>>])

\* the three bulk deletes of _apply_replace, committed
wipe(db) == commit([db EXCEPT !.rsvp_logs = {}, !.companions = {}, !.rows = <<>>])

\* _apply_replace
apply_replace(db, plan, report, tape) == apply_add_only(wipe(db), plan, report, tape)

\* a variant of the gate that accepts any non-empty confirm_text
GateRaises_any_text(mode, confirm_text) ==
    mode \in {SYNC, REPLACE} /\ ~ Truthy(confirm_text)

\* the destructive-mode gate: SYNC and REPLACE need the phrase, trimmed
GateRaises(mode, confirm_text) ==
    mode \in {SYNC, REPLACE} /\ (~ Truthy(confirm_text) \/ Strip(confirm_text) # S_BORRAR_TODO)

\* the mode applier import_guests_from_csv dispatches to
apply_mode(mode, db, plan, report, tape) ==
    IF mode = ADD_ONLY THEN apply_add_only(db, plan, report, tape)
    ELSE IF mode = UPSERT THEN apply_upsert(db, plan, report, tape)
    ELSE IF mode = SYNC THEN apply_sync(db, plan, report, tape)
    ELSE apply_replace(db, plan, report, tape)

\* what import_guests_from_csv returns after the mode applier
Returned(a) ==
    [raised |-> FALSE, db |-> a.db, report |-> a.report, ok |-> a.ok, draws |-> a.draws]

\* a variant of the entry point whose dry run of REPLACE wipes the store
import_guests_from_csv_dry_wipes(db, csv_text, mode, dry_run, confirm_text, tape) ==
    IF GateRaises(mode, confirm_text)
    THEN [raised |-> TRUE, db |-> db, report |-> EmptyReport, ok |-> TRUE, draws |-> 0]
    ELSE LET vp == validate_and_plan(csv_text)
             base_report == [vp.report EXCEPT !.mode = mode, !.dry_run = dry_run]
         IN  IF dry_run
             THEN [raised |-> FALSE, db |-> IF mode = REPLACE THEN wipe(db) ELSE db,
                   report |-> base_report, ok |-> TRUE, draws |-> 0]
             ELSE Returned(apply_mode(mode, db, vp.planned, base_report, tape))

\* import_guests_from_csv: raised is TRUE when the gate raises ValueError;
\* ok is FALSE when a code generation does not return for the drawn suffixes;
\* draws is the number of codes that were generated
import_guests_from_csv(db, csv_text, mode, dry_run, confirm_text, tape) ==
    IF GateRaises(mode, confirm_text)
    THEN [raised |-> TRUE, db |-> db, report |-> EmptyReport, ok |-> TRUE, draws |-> 0]
    ELSE LET vp == validate_and_plan(csv_text)
             base_report == [vp.report EXCEPT !.mode = mode, !.dry_run = dry_run]
         IN  IF dry_run
             THEN [raised |-> FALSE, db |-> db, report |-> base_report, ok |-> TRUE, draws |-> 0]
             ELSE Returned(apply_mode(mode, db, vp.planned, base_report, tape))

(***************************************************************************)
(* RSVP submission.                                                        *)
(***************************************************************************)
B_True == <<"True">>
B_False == <<"False">>

Timestamp(n) == <<"utc", ToString(n)>>

RECURSIVE CountChildren(_)
CountChildren(cs) ==
    IF cs = <<>> THEN 0 ELSE (IF Head(cs).is_child THEN 1 ELSE 0) + CountChildren(Tail(cs))

\* variant: a guest that does not attend keeps the allergies of the payload
update_rsvp_guest_decline_keeps_allergies(guest, attending, payload, now) ==
    [guest EXCEPT !.confirmed = IF attending THEN B_True ELSE B_False, !.confirmed_at = now,
                  !.allergies = IF Truthy(payload.allergies) THEN payload.allergies ELSE None,
                  !.notes = IF Truthy(payload.notes) THEN payload.notes ELSE None,
                  !.num_adults = IF attending THEN 1 + Len(payload.companions) ELSE 0,
                  !.num_children = 0]

\* update_rsvp: the guest row after the submission
update_rsvp_guest(guest, attending, payload, now) ==
    IF ~ attending
    THEN [guest EXCEPT !.confirmed = B_False, !.confirmed_at = now,
                       !.allergies = None,
                       !.num_adults = 0, !.num_children = 0,
                       !.notes = IF Truthy(payload.notes) THEN payload.notes ELSE None]
    ELSE [guest EXCEPT !.confirmed = B_True, !.confirmed_at = now,
                       !.allergies = IF Truthy(payload.allergies) THEN payload.allergies ELSE None,
                       !.notes = IF Truthy(payload.notes) THEN payload.notes ELSE None,
                       !.email = IF Truthy(payload.email) THEN payload.email ELSE @,
                       !.phone = IF Truthy(payload.phone) THEN payload.phone ELSE @,
                       !.num_adults = 1 + Len(payload.companions) - CountChildren(payload.companions),
                       !.num_children = CountChildren(payload.companions)]

\* update_rsvp: the companions of the guest are replaced by those of the payload,
\* and cleared when the guest does not attend
update_rsvp_companions(comps, guest, attending, payload) ==
    { c \in comps : c.guest_id # guest.id }
      \cup (IF attending
            THEN { [guest_id |-> guest.id, name |-> Strip(payload.companions[i].name),
                    is_child |-> payload.companions[i].is_child] : i \in 1..Len(payload.companions) }
            ELSE {})

\* process_rsvp_submission rejects a payload with more companions than allowed
RsvpRejected(guest, payload) ==
    payload.attending /\ Len(payload.companions) > guest.max_accomp

(***************************************************************************)
(* Inputs.                                                                 *)
(***************************************************************************)
T_Ana == <<"A","n","a">>
T_Phone1 == <<"+","1","1","1","1","1","1">>
T_Phone2 == <<"2","2","2","2","2","2">>
T_Email == <<"A","@","x">>
T_Code == <<"a","n","a","-","0","0","0","0">>

\* the administrative cells a row carries: a filled set and a blank set
AdminCells(filled) ==
    IF filled
    THEN [language |-> <<"E","S">>, side |-> <<"B","r","i","d","e">>, relationship |-> <<"f">>,
          group_id |-> <<"g">>, max_accomp |-> <<"1">>, invite_type |-> S_ceremony]
    ELSE [language |-> <<>>, side |-> <<>>, relationship |-> <<>>,
          group_id |-> <<>>, max_accomp |-> <<"-","1">>, invite_type |-> <<"x">>]

CsvRow(full_name, phone, email, guest_code) ==
    LET a == AdminCells(email # <<>>) IN
    [ full_name |-> full_name, phone |-> phone, email |-> email, guest_code |-> guest_code,
      language |-> a.language, side |-> a.side, relationship |-> a.relationship,
      group_id |-> a.group_id, max_accomp |-> a.max_accomp, invite_type |-> a.invite_type ]

\* rows a file is made of: every combination of two phones, email or none, code
\* or none, and a row that fails validation
CsvRows ==
    { CsvRow(T_Ana, p, e, c) : p \in {T_Phone1, T_Phone2}, e \in {<<>>, T_Email}, c \in {<<>>, T_Code} }
      \cup { CsvRow(<<" ">>, T_Phone1, <<>>, <<>>) }

CsvTexts == UNION { [1..n -> CsvRows] : n \in 0..MaxRows }

\* confirm_text of a request: the form field is only sent for the destructive modes
ConfirmTexts(mode) ==
    IF mode \in {SYNC, REPLACE}
    THEN { None, <<" ">> \o S_BORRAR_TODO \o <<" ">>, <<"B","O","R","R","A","R">> }
    ELSE { None }

RsvpPayloads ==
    { [attending |-> TRUE, allergies |-> <<"g">>, notes |-> <<"n">>, email |-> None, phone |-> None,
       companions |-> << [name |-> <<"C","y">>, is_child |-> FALSE] >>],
      [attending |-> TRUE, allergies |-> None, notes |-> None, email |-> None, phone |-> T_Phone1,
       companions |-> <<>>] }

(***************************************************************************)
(* The state machine.                                                      *)
(***************************************************************************)
VARIABLES guests, companions, rsvp_logs, nextId, runs, rsvps, response, inflight, now

vars == <<guests, companions, rsvp_logs, nextId, runs, rsvps, response, inflight, now>>

NoResponse == [op |-> "none"]

\* the requests that can be in flight together, and a request not started
Requests == {1, 2}

Idle == [phase |-> "idle"]

Store == [guests |-> guests, companions |-> companions, rsvp_logs |-> rsvp_logs]

Session == [rows |-> guests, pending |-> <<>>, companions |-> companions,
            rsvp_logs |-> rsvp_logs, nextId |-> nextId]

Init ==
    /\ guests = <<>>
    /\ companions = {}
    /\ rsvp_logs = {}
    /\ nextId = 1
    /\ runs = 0
    /\ rsvps = 0
    /\ response = NoResponse
    /\ inflight = [p \in Requests |-> Idle]
    /\ now = 0

\* the suffixes the generator finally returns, one per planned row without a code
Tapes(csv_text, mode, dry_run, confirm_text) ==
    LET plan == validate_and_plan(csv_text).planned
        n == IF dry_run \/ GateRaises(mode, confirm_text) THEN 0
             ELSE Cardinality({ i \in 1..Len(plan) : CsvCode(plan[i].data) = <<>> })
    IN  [1..n -> SuffixDraws]

\* one call of import_guests_from_csv on the session of a request that carries
\* these form fields; the response keeps the request, the store it met and the
\* suffixes the code generator drew
ImportRequest(csv_text, mode, dry_run, confirm_text) ==
    /\ response.op = "none"
    /\ runs < MaxRuns
    /\ \E tape \in Tapes(csv_text, mode, dry_run, confirm_text) :
         \E r \in {import_guests_from_csv(Session, csv_text, mode, dry_run, confirm_text, tape)} :
            /\ r.ok
            /\ guests' = r.db.rows
            /\ companions' = r.db.companions
            /\ rsvp_logs' = r.db.rsvp_logs
            /\ nextId' = r.db.nextId
            /\ response' = [op |-> "import", mode |-> mode, dry_run |-> dry_run,
                            confirm_text |-> confirm_text, csv_text |-> csv_text,
                            before |-> Store, raised |-> r.raised, report |-> r.report,
                            tape |-> SubSeq(tape, 1, r.draws), error |-> IF r.raised THEN "ValueError" ELSE "none"]
    /\ runs' = runs + 1
    /\ UNCHANGED <<rsvps, inflight, now>>

\* POST /guests-import
ImportGuestsCsv ==
    /\ response.op = "none"
    /\ \E csv_text \in CsvTexts, mode \in import_mode, dry_run \in BOOLEAN :
         \E confirm_text \in ConfirmTexts(mode) :
            ImportRequest(csv_text, mode, dry_run, confirm_text)

\* process_rsvp_submission for one stored guest
SubmitRsvp ==
    /\ response.op = "none"
    /\ rsvps < MaxRsvp
    /\ \E i \in 1..Len(guests), payload \in RsvpPayloads :
         /\ ~ RsvpRejected(guests[i], payload)
         /\ guests' = [guests EXCEPT ![i] =
                          update_rsvp_guest(@, payload.attending, payload, Timestamp(rsvps + 1))]
         /\ companions' = update_rsvp_companions(companions, guests[i], payload.attending, payload)
         /\ rsvp_logs' = rsvp_logs \cup {[n |-> rsvps + 1, guest_id |-> guests[i].id,
                                          action_type |-> "update_rsvp"]}
    /\ rsvps' = rsvps + 1
    /\ UNCHANGED <<nextId, runs, response, inflight, now>>

\* the response of the import request reaches the caller
Deliver ==
    /\ response.op # "none"
    /\ response' = NoResponse
    /\ UNCHANGED <<guests, companions, rsvp_logs, nextId, runs, rsvps, inflight, now>>

Next == ImportGuestsCsv \/ SubmitRsvp \/ Deliver

Spec == Init /\ [][Next]_vars

(***************************************************************************)
(* Vocabulary of the properties: the request just handled, the store       *)
(* before it and the store now.                                            *)
(***************************************************************************)
IsImport == response.op = "import"

\* the request was an import that passed the gate and was not a dry run
Committed == IsImport /\ ~ response.raised /\ ~ response.dry_run

Before == response.before

Ids(rows) == { rows[i].id : i \in 1..Len(rows) }

GuestSet(rows) == { rows[i] : i \in 1..Len(rows) }

\* canonical phone of a stored guest
CanonicalPhone(g) == normalize_phone(OrNone(g.phone))

\* the rows of the request that validation accepted
AcceptedRows == validate_and_plan(response.csv_text).planned

\* canonical phones of every row of the file, accepted or not
InputPhones ==
    { map_row_fields(response.csv_text[i]).phone : i \in 1..Len(response.csv_text) }

BadConfirm(c) == c = None \/ c = <<>> \/ Strip(c) # S_BORRAR_TODO

(***************************************************************************)
(* C1  The destructive gate.                                               *)
(***************************************************************************)
\* C1: an import in mode SYNC or REPLACE whose confirm_text is absent, empty or
\* differs from "BORRAR TODO" after trimming raises before any row is validated,
\* dry run or not: no report is produced and the store is unchanged.
C1_GateFailsFast ==
    (IsImport /\ response.mode \in {SYNC, REPLACE} /\ BadConfirm(response.confirm_text))
        => /\ response.raised
           /\ response.report = EmptyReport
           /\ Store = Before

\* a committed-mode SYNC with a wrong phrase, rows to reject and guests to lose
C1_Witness ==
    /\ IsImport
    /\ response.mode = SYNC
    /\ ~ response.dry_run
    /\ response.confirm_text = <<"B","O","R","R","A","R">>
    /\ response.raised
    /\ Len(Before.guests) > 0
    /\ validate_and_plan(response.csv_text).report.rejected_count > 0

(***************************************************************************)
(* C2  Dry run leaves the store alone.                                     *)
(***************************************************************************)
\* C2: in every mode, an import with dry_run set that passes the gate changes no
\* guest, companion or RSVP log record.
C2_DryRunNoMutation ==
    (IsImport /\ response.dry_run /\ ~ response.raised) => Store = Before

\* a dry REPLACE over a store with guests, companions and log rows, with rows
\* that a committed run would have created
C2_Witness ==
    /\ IsImport /\ response.dry_run /\ ~ response.raised
    /\ response.mode = REPLACE
    /\ Before.guests # <<>> /\ Before.companions # {} /\ Before.rsvp_logs # {}
    /\ AcceptedRows # <<>>

(***************************************************************************)
(* C3  Dry-run report against the committed report.                        *)
(***************************************************************************)
\* the report a dry run returns for the request just handled
DryRunReport ==
    import_guests_from_csv(
        [rows |-> Before.guests, pending |-> <<>>, companions |-> Before.companions,
         rsvp_logs |-> Before.rsvp_logs, nextId |-> nextId],
        response.csv_text, response.mode, TRUE, response.confirm_text, <<>>).report

\* C3: for the same store, file and mode, the committed run's report equals the
\* dry run's report in the four counts and the error list.
C3_DryRunReportEqualsCommitted ==
    Committed =>
        /\ response.report.created_count = DryRunReport.created_count
        /\ response.report.updated_count = DryRunReport.updated_count
        /\ response.report.skipped_count = DryRunReport.skipped_count
        /\ response.report.rejected_count = DryRunReport.rejected_count
        /\ response.report.errors = DryRunReport.errors

(***************************************************************************)
(* C4  SYNC deletes the absent and keeps the present.                      *)
(***************************************************************************)
\* C4, the half about the guests absent from the file: after a committed SYNC
\* no guest that existed before, and whose canonical phone is in no row of the
\* file, is still stored.  (A guest matched by code whose phone the row corrects
\* is kept under its new phone.)
C4_SyncDeletesAbsent ==
    (Committed /\ response.mode = SYNC) =>
        \A g \in GuestSet(Before.guests) :
            CanonicalPhone(g) \notin InputPhones => g.id \notin Ids(guests)

\* C4, the half about the guests present in the file: after a committed SYNC
\* every guest that existed before and whose canonical phone is in a row of the
\* file is still stored.
C4_SyncKeepsPresent ==
    (Committed /\ response.mode = SYNC) =>
        \A g \in GuestSet(Before.guests) :
            CanonicalPhone(g) \in InputPhones => g.id \in Ids(guests)

(***************************************************************************)
(* C5  REPLACE reseeds the store from the file.                            *)
(***************************************************************************)
AlphaNum(c) == IsAsciiUpper(c) \/ IsDigit(c)

\* code has the form <slug7(name)>-<4 characters of A-Z0-9>
IsGeneratedCode(code, full_name) ==
    LET base == slug7(full_name) IN
    /\ Len(code) = Len(base) + 5
    /\ SubSeq(code, 1, Len(base)) = base
    /\ code[Len(base) + 1] = "-"
    /\ \A i \in (Len(base) + 2)..Len(code) : AlphaNum(code[i])

\* the stored guest g is the guest the accepted row creates
GuestOfRow(g, item) ==
    /\ g.full_name = item.data.full_name
    /\ g.phone = item.data.phone
    /\ g.email = (IF item.data.email = <<>> THEN None ELSE item.data.email)
    /\ IF CsvCode(item.data) # <<>>
       THEN g.guest_code = CsvCode(item.data)
       ELSE IsGeneratedCode(g.guest_code, item.data.full_name)

\* the store holds one guest per row of `items`, in order, and nothing else
SeededFrom(items) ==
    /\ Len(guests) = Len(items)
    /\ \A k \in 1..Len(items) : GuestOfRow(guests[k], items[k])

\* everything that was stored before the run is gone
OldRecordsGone ==
    /\ Ids(Before.guests) \cap Ids(guests) = {}
    /\ companions = {}
    /\ rsvp_logs = {}

\* accepted rows that do not repeat the supplied code of an earlier accepted row
RowsNotRepeatingACode ==
    SelectSeq(AcceptedRows,
              LAMBDA it : \/ CsvCode(it.data) = <<>>
                          \/ \A j \in 1..Len(AcceptedRows) :
                                AcceptedRows[j].row_number < it.row_number
                                    => CsvCode(AcceptedRows[j].data) # CsvCode(it.data))

\* C5 as stated: after a committed REPLACE every earlier guest, companion and
\* log row is gone and the store holds exactly one guest per accepted row, with
\* a generated code where the row supplied none.
C5_ReplaceOnePerAcceptedRow ==
    (Committed /\ response.mode = REPLACE) => (OldRecordsGone /\ SeededFrom(AcceptedRows))

\* C5 amended: after a committed REPLACE every earlier guest, companion and log
\* row is gone and the store holds exactly one guest per accepted row that does
\* not repeat the supplied code of an earlier accepted row (such a row is
\* skipped), with a generated code where the row supplied none.
C5_ReplaceOnePerDistinctCode ==
    (Committed /\ response.mode = REPLACE) => (OldRecordsGone /\ SeededFrom(RowsNotRepeatingACode))

\* a committed REPLACE over guests with companions and log rows, whose file has
\* a row without a code and two rows with the same code
C5_Witness ==
    /\ Committed /\ response.mode = REPLACE
    /\ Before.guests # <<>> /\ Before.companions # {} /\ Before.rsvp_logs # {}
    /\ guests # <<>>
    /\ \E k \in 1..Len(guests) : IsGeneratedCode(guests[k].guest_code, guests[k].full_name)

\* a committed REPLACE whose second accepted row repeats the code of the first
C5_WitnessRepeatedCode ==
    /\ Committed /\ response.mode = REPLACE
    /\ Len(AcceptedRows) = 2
    /\ Len(RowsNotRepeatingACode) = 1
    /\ Len(guests) = 1

(***************************************************************************)
(* C6  Protected RSVP fields.                                              *)
(***************************************************************************)
ProtectedFields(g) ==
    [ confirmed |-> g.confirmed, confirmed_at |-> g.confirmed_at, allergies |-> g.allergies,
      notes |-> g.notes, num_adults |-> g.num_adults, num_children |-> g.num_children ]

CompanionsOf(comps, id) == { c \in comps : c.guest_id = id }

\* C6: a guest that exists before and after a committed ADD_ONLY, UPSERT or SYNC
\* run has the same confirmed, confirmed_at, allergies, notes, num_adults,
\* num_children and companions after the run as before it.
C6_RsvpFieldsProtected ==
    (Committed /\ response.mode \in {ADD_ONLY, UPSERT, SYNC}) =>
        \A g \in GuestSet(Before.guests), h \in GuestSet(guests) :
            g.id = h.id =>
                /\ ProtectedFields(h) = ProtectedFields(g)
                /\ CompanionsOf(companions, h.id) = CompanionsOf(Before.companions, g.id)

\* a committed UPSERT that changed administrative columns of a guest who had
\* confirmed, with allergies, notes and a companion
C6_Witness ==
    /\ Committed /\ response.mode = UPSERT
    /\ response.report.updated_count > 0
    /\ \E g \in GuestSet(Before.guests), h \in GuestSet(guests) :
          /\ g.id = h.id
          /\ h # g
          /\ g.confirmed = B_True
          /\ g.allergies # None /\ g.notes # None
          /\ CompanionsOf(Before.companions, g.id) # {}

(***************************************************************************)
(* C7  UPSERT keeps guest codes.                                           *)
(***************************************************************************)
\* C7: after a committed UPSERT every guest that existed before the run has the
\* guest_code it had before.
C7_UpsertKeepsCode ==
    (Committed /\ response.mode = UPSERT) =>
        \A g \in GuestSet(Before.guests) :
            \E h \in GuestSet(guests) : h.id = g.id /\ h.guest_code = g.guest_code

\* a committed UPSERT whose row matched a guest by phone, was applied, and
\* supplied a code other than the guest's
C7_Witness ==
    /\ Committed /\ response.mode = UPSERT
    /\ \E g \in GuestSet(Before.guests), h \in GuestSet(guests), k \in 1..Len(AcceptedRows) :
          /\ g.id = h.id
          /\ h # g
          /\ AcceptedRows[k].data.phone = CanonicalPhone(g)
          /\ CsvCode(AcceptedRows[k].data) # <<>>
          /\ CsvCode(AcceptedRows[k].data) # Upper(Strip(g.guest_code))

\* a committed UPSERT whose row matched a guest by code and moved its phone
C7_WitnessByCode ==
    /\ Committed /\ response.mode = UPSERT
    /\ \E g \in GuestSet(Before.guests), h \in GuestSet(guests), k \in 1..Len(AcceptedRows) :
          /\ g.id = h.id
          /\ CsvCode(AcceptedRows[k].data) = Upper(Strip(g.guest_code))
          /\ h.phone # g.phone

(***************************************************************************)
(* C8  Codes of re-imported guests.                                        *)
(***************************************************************************)
\* g existed before the run and an accepted row carries its canonical phone
ReImported(g) == CanonicalPhone(g) \in PhonesInCsv(AcceptedRows)

\* C8 as stated: after a committed run in any of the four modes, the code of
\* every re-imported guest is still the code of a stored guest.
C8_CodeSurvivesAnyMode ==
    Committed =>
        \A g \in GuestSet(Before.guests) :
            ReImported(g) => \E h \in GuestSet(guests) : h.guest_code = g.guest_code

\* C8 amended: after a committed ADD_ONLY, UPSERT or SYNC run every re-imported
\* guest is still stored, under the code it had before the run.
C8_CodeSurvivesNonReplace ==
    (Committed /\ response.mode \in {ADD_ONLY, UPSERT, SYNC}) =>
        \A g \in GuestSet(Before.guests) :
            ReImported(g) => \E h \in GuestSet(guests) : h.id = g.id /\ h.guest_code = g.guest_code

\* a committed SYNC that deleted a guest and kept a re-imported one whose phone
\* is stored in the legacy form with a leading "+"
C8_Witness ==
    /\ Committed /\ response.mode = SYNC
    /\ Len(guests) < Len(Before.guests) + response.report.created_count
    /\ \E g \in GuestSet(Before.guests) :
          /\ ReImported(g)
          /\ g.phone # CanonicalPhone(g)
          /\ g.id \in Ids(guests)

(***************************************************************************)
(* C9  Canonical phones stay unique.                                       *)
(***************************************************************************)
PhonesUnique(rows) ==
    \A i, j \in 1..Len(rows) :
        (i # j /\ CanonicalPhone(rows[i]) # <<>>) => CanonicalPhone(rows[i]) # CanonicalPhone(rows[j])

\* C9: a committed run that starts from a store whose non-empty canonical
\* phones are unique ends in a store whose non-empty canonical phones are unique.
C9_PhonesStayUnique ==
    (Committed /\ PhonesUnique(Before.guests)) => PhonesUnique(guests)

(***************************************************************************)
(* C10  Guest codes stay unique.                                           *)
(***************************************************************************)
CodesUnique(rows) ==
    \A i, j \in 1..Len(rows) : i # j => rows[i].guest_code # rows[j].guest_code

\* C10: a committed run that starts from a store without two guests of the same
\* guest_code ends in one.
C10_CodesStayUnique ==
    (Committed /\ CodesUnique(Before.guests)) => CodesUnique(guests)

(***************************************************************************)
(* C11  ADD_ONLY: skip the guests that exist, create the others.           *)
(***************************************************************************)
\* the indexes of the store the request met
StoredIndex == build_db_indexes(Before.guests)

\* the row's supplied code, else its canonical phone, is that of a stored guest
MatchesStored(data) ==
    \/ CsvCode(data) # <<>> /\ HasKey(StoredIndex.code_to_id, CsvCode(data))
    \/ HasKey(StoredIndex.phone_to_id, data.phone)

\* the row's email is that of a stored guest
EmailTaken(data) == data.email # <<>> /\ HasKey(StoredIndex.email_to_id, data.email)

\* the accepted rows for which P holds, in file order
RowsWhere(P(_)) == SelectSeq(AcceptedRows, P)

\* the guests stored by the run are those of `items`, one each, in order
CreatedFrom(items) ==
    LET n == Len(Before.guests) IN
    /\ Len(guests) = n + Len(items)
    /\ \A k \in 1..Len(items) : GuestOfRow(guests[n + k], items[k])

\* every guest stored before the run is stored now, the same in every field
StoredGuestsUntouched == SubSeq(guests, 1, Len(Before.guests)) = Before.guests

\* ADD_ONLY creates a guest for the k-th accepted row: the row matches no stored
\* guest, its email is free, and no earlier row that created a guest supplied
\* the code it supplies
RECURSIVE AddOnlyCreates(_)
AddOnlyCreates(k) ==
    LET d == AcceptedRows[k].data IN
    /\ ~ MatchesStored(d)
    /\ ~ EmailTaken(d)
    /\ \A j \in 1..(k - 1) :
          (CsvCode(d) # <<>> /\ CsvCode(AcceptedRows[j].data) = CsvCode(d)) => ~ AddOnlyCreates(j)

\* the k-th accepted row supplies the code of a guest an earlier row created
RepeatsCreatedCode(k) ==
    LET d == AcceptedRows[k].data IN
    \E j \in 1..(k - 1) :
        CsvCode(d) # <<>> /\ CsvCode(AcceptedRows[j].data) = CsvCode(d) /\ AddOnlyCreates(j)

RowIndex(item) == CHOOSE k \in 1..Len(AcceptedRows) : AcceptedRows[k] = item

\* C11 as stated: after a committed ADD_ONLY run every stored guest is unchanged,
\* skipped_count is the number of accepted rows that match a stored guest by
\* supplied code or else by canonical phone, and the run created one guest for
\* every other accepted row whose email is not that of a stored guest.
C11_AddOnlySkipsStoredMatches ==
    (Committed /\ response.mode = ADD_ONLY) =>
        /\ StoredGuestsUntouched
        /\ response.report.skipped_count = Len(RowsWhere(LAMBDA it : MatchesStored(it.data)))
        /\ CreatedFrom(RowsWhere(LAMBDA it : ~ MatchesStored(it.data) /\ ~ EmailTaken(it.data)))

\* C11 amended: a row that supplies the code of a guest created by an earlier
\* row of the same run is skipped too; the run created one guest for every
\* accepted row that is neither skipped nor rejected with EMAIL_CONFLICT.
C11_AddOnlySkipsMatches ==
    (Committed /\ response.mode = ADD_ONLY) =>
        /\ StoredGuestsUntouched
        /\ response.report.skipped_count =
              Len(RowsWhere(LAMBDA it : MatchesStored(it.data) \/ RepeatsCreatedCode(RowIndex(it))))
        /\ response.report.rejected_count =
              Len(response.csv_text) - Len(AcceptedRows)
                + Len(RowsWhere(LAMBDA it : /\ ~ MatchesStored(it.data)
                                            /\ ~ RepeatsCreatedCode(RowIndex(it))
                                            /\ EmailTaken(it.data)))
        /\ CreatedFrom(RowsWhere(LAMBDA it : AddOnlyCreates(RowIndex(it))))

\* a committed ADD_ONLY of two accepted rows: one is skipped, one creates a guest
C11_Witness ==
    /\ Committed /\ response.mode = ADD_ONLY
    /\ Len(AcceptedRows) = 2
    /\ Before.guests # <<>>
    /\ response.report.skipped_count = 1
    /\ response.report.created_count = 1

\* a committed ADD_ONLY that skips a row matching a stored guest by a code
\* written in lower case, under a phone no stored guest has
C11_WitnessByCode ==
    /\ Committed /\ response.mode = ADD_ONLY
    /\ \E k \in 1..Len(AcceptedRows) : LET d == AcceptedRows[k].data IN
          /\ HasKey(StoredIndex.code_to_id, CsvCode(d))
          /\ d.guest_code # CsvCode(d)
          /\ ~ HasKey(StoredIndex.phone_to_id, d.phone)
    /\ response.report.skipped_count > 0

\* a committed ADD_ONLY that skips a row by phone and rejects one with EMAIL_CONFLICT
C11_WitnessConflict ==
    /\ Committed /\ response.mode = ADD_ONLY
    /\ Len(AcceptedRows) = 2
    /\ \E k \in 1..2 : LET d == AcceptedRows[k].data IN
          CsvCode(d) = <<>> /\ HasKey(StoredIndex.phone_to_id, d.phone)
    /\ \E k \in 1..2 : LET d == AcceptedRows[k].data IN ~ MatchesStored(d) /\ EmailTaken(d)
    /\ response.report.skipped_count = 1
    /\ response.report.rejected_count = 1

(***************************************************************************)
(* The rows of the request just handled, one at a time: the state of the   *)
(* applier's loop when it reaches the k-th accepted row, computed from the *)
(* store the request met and the suffixes that were drawn.                 *)
(***************************************************************************)
BeforeSession ==
    [rows |-> Before.guests, pending |-> <<>>, companions |-> Before.companions,
     rsvp_logs |-> Before.rsvp_logs, nextId |-> nextId]

LoopAt(k) ==
    LET base == [validate_and_plan(response.csv_text).report
                     EXCEPT !.mode = response.mode, !.dry_run = response.dry_run]
        done == SubSeq(AcceptedRows, 1, k - 1)
    IN  IF response.mode = ADD_ONLY
        THEN AddOnlyLoop(LoopStart(BeforeSession, base, 0, TRUE), done, response.tape)
        ELSE IF response.mode = REPLACE
        THEN AddOnlyLoop(LoopStart(wipe(BeforeSession), base, 0, TRUE), done, response.tape)
        ELSE UpsertLoop(LoopStart(BeforeSession, base, 0, TRUE), done, response.tape)

\* what the k-th accepted row resolves to when the loop reaches it
Resolved(k) == MatchRow(LoopAt(k), AcceptedRows[k].data)

\* the email of the k-th accepted row is indexed when the loop reaches it
EmailIndexed(k) ==
    LET d == AcceptedRows[k].data IN d.email # <<>> /\ HasKey(LoopAt(k).email_to_id, d.email)

\* the guests the run created, in the order of their creation
CreatedGuests == SelectSeq(guests, LAMBDA g : g.id \notin Ids(Before.guests))

\* the run created one guest for each of `items`, in order, and no other
CreatedAre(items) ==
    /\ Len(CreatedGuests) = Len(items)
    /\ \A k \in 1..Len(items) : GuestOfRow(CreatedGuests[k], items[k])

(***************************************************************************)
(* C12  UPSERT: update the administrative fields, create the others.       *)
(***************************************************************************)
\* the fields of a guest a reconciliation run never writes
FixedFields(g) ==
    [ id |-> g.id, guest_code |-> g.guest_code, rsvp |-> ProtectedFields(g) ]

\* rows (by position among the accepted rows) that resolve to the stored guest g
\* and are not rejected for their email
RowsUpdating(g) ==
    { k \in 1..Len(AcceptedRows) :
        /\ Resolved(k).existing_id = g.id
        /\ ~ (EmailIndexed(k) /\ LoopAt(k).email_to_id[AcceptedRows[k].data.email] # g.id) }

\* h is the stored guest g after the run: only administrative fields have
\* changed, they hold what the last row resolving to g supplied, and the phone
\* has changed only to the phone of a row that matched g by code
UpsertedFrom(g, h) ==
    /\ FixedFields(h) = FixedFields(g)
    /\ RowsUpdating(g) = {} => h = g
    /\ RowsUpdating(g) # {} =>
          LET k == CHOOSE x \in RowsUpdating(g) : \A y \in RowsUpdating(g) : y <= x
          IN  h.full_name = AcceptedRows[k].data.full_name
                /\ h.max_accomp = AcceptedRows[k].data.max_accomp
    /\ h.phone # g.phone =>
          \E k \in RowsUpdating(g) :
              Resolved(k).matched_by_code /\ h.phone = AcceptedRows[k].data.phone
    /\ \A k \in RowsUpdating(g) :
          Resolved(k).matched_by_code =>
              \E j \in RowsUpdating(g) : h.phone = AcceptedRows[j].data.phone

UpsertUpdatesStoredGuests ==
    /\ response.mode = UPSERT => Ids(Before.guests) \subseteq Ids(guests)
    /\ \A g \in GuestSet(Before.guests), h \in GuestSet(guests) : h.id = g.id => UpsertedFrom(g, h)

C12_WitnessPhoneCorrected ==
    /\ Committed /\ response.mode = SYNC
    /\ \E g \in GuestSet(Before.guests), h \in GuestSet(guests) :
          g.id = h.id /\ h.phone # g.phone /\ CanonicalPhone(g) # CanonicalPhone(h)

\* a committed UPSERT whose second row supplies the code of the guest its first
\* row created: the row is neither applied nor counted
C12_WitnessDroppedRow ==
    /\ Committed /\ response.mode = UPSERT
    /\ Len(AcceptedRows) = 2
    /\ Resolved(2).existing_id = Placeholder
    /\ response.report.created_count = 1
    /\ response.report.updated_count + response.report.skipped_count
          + response.report.rejected_count = 0

(***************************************************************************)
(* C13  EMAIL_CONFLICT.                                                    *)
(***************************************************************************)
\* the email of the k-th accepted row is indexed to a guest other than the one
\* the row resolves to (to any guest, when the row resolves to none)
EmailOfAnother(k) ==
    /\ EmailIndexed(k)
    /\ LoopAt(k).email_to_id[AcceptedRows[k].data.email] # Resolved(k).existing_id

\* the report has exactly one entry for the row, and it says EMAIL_CONFLICT
RejectedForEmail(item) ==
    /\ \E i \in 1..Len(response.report.errors) : LET e == response.report.errors[i] IN
          /\ e.row_number = item.row_number
          /\ e.field = "email"
          /\ e.code = "EMAIL_CONFLICT"
          /\ e.value = item.data.email
    /\ Cardinality({ i \in 1..Len(response.report.errors) :
                       response.report.errors[i].row_number = item.row_number }) = 1

\* the k-th accepted row left the session as it found it, and the guests that
\* held its email before the run are the only ones to hold it now
NothingWritten(k) ==
    /\ LoopAt(k + 1).db = LoopAt(k).db
    /\ \A h \in GuestSet(guests) :
          h.email = AcceptedRows[k].data.email =>
              \E g \in GuestSet(Before.guests) : g.id = h.id /\ g.email = h.email

\* C13 as stated: in a committed run of any mode, an accepted row whose email is
\* indexed to a guest other than the one it resolves to is rejected with
\* EMAIL_CONFLICT and writes nothing.
C13_EmailConflictRejectedInEveryMode ==
    Committed =>
        \A k \in 1..Len(AcceptedRows) :
            EmailOfAnother(k) => (RejectedForEmail(AcceptedRows[k]) /\ NothingWritten(k))

\* C13 amended: such a row writes nothing in any mode; it is rejected with
\* EMAIL_CONFLICT in UPSERT and SYNC, and in ADD_ONLY and REPLACE when it
\* resolves to no guest (a row that resolves to a guest is skipped there).
C13_EmailConflictWritesNothing ==
    Committed =>
        \A k \in 1..Len(AcceptedRows) :
            EmailOfAnother(k) =>
                /\ NothingWritten(k)
                /\ (response.mode \in {UPSERT, SYNC} \/ Resolved(k).existing_id = NoId)
                      => RejectedForEmail(AcceptedRows[k])
                /\ (response.mode \in {ADD_ONLY, REPLACE} /\ Resolved(k).existing_id # NoId)
                      => response.report.skipped_count > 0

\* a committed UPSERT whose row resolves to one stored guest and carries the
\* email of another
C13_Witness ==
    /\ Committed /\ response.mode = UPSERT
    /\ \E k \in 1..Len(AcceptedRows) :
          /\ EmailOfAnother(k)
          /\ Resolved(k).existing_id \in Ids(Before.guests)
    /\ response.report.rejected_count > 0

\* a committed ADD_ONLY whose row resolves to no guest and carries a stored email
C13_WitnessAddOnly ==
    /\ Committed /\ response.mode = ADD_ONLY
    /\ \E k \in 1..Len(AcceptedRows) : EmailOfAnother(k) /\ Resolved(k).existing_id = NoId

(***************************************************************************)
(* Validation on its own: dry runs over files whose rows fail every rule,  *)
(* alone and together.                                                     *)
(***************************************************************************)
T_NoDigits == <<"-">>
T_Short == <<"1","2","3","4","5">>

\* rows with a name or none, a valid phone, a short one or one without digits,
\* an email or none
ValidationRows ==
    { CsvRow(n, p, e, <<>>) : n \in {T_Ana, <<" ">>},
                              p \in {T_Phone1, T_Phone2, T_NoDigits, T_Short},
                              e \in {<<>>, T_Email} }

ValidationTexts == UNION { [1..n -> ValidationRows] : n \in 0..(MaxRows + 1) }

\* POST /guests-import with dry_run=true
ValidateCsv ==
    /\ response.op = "none"
    /\ \E csv_text \in ValidationTexts : ImportRequest(csv_text, ADD_ONLY, TRUE, None)

NextValidate == ValidateCsv \/ Deliver

SpecValidate == Init /\ [][NextValidate]_vars

\* a report came back: the request was not refused at the gate
Reported == IsImport /\ ~ response.raised

\* the fields of the j-th row of the file, which the report numbers j + 1
RowData(j) == map_row_fields(response.csv_text[j])
RowNumber(j) == j + 1

FileRows == 1..Len(response.csv_text)

\* the error entries of the report about one row of the file
ErrorsOf(j) ==
    { i \in 1..Len(response.report.errors) : response.report.errors[i].row_number = RowNumber(j) }

IsAccepted(j) == \E k \in 1..Len(AcceptedRows) : AcceptedRows[k].row_number = RowNumber(j)

\* the row is rejected with one entry, which carries this code
RejectedWith(j, code) ==
    /\ ~ IsAccepted(j)
    /\ Cardinality(ErrorsOf(j)) = 1
    /\ \A i \in ErrorsOf(j) : response.report.errors[i].code = code

\* the accepted rows above row j
AcceptedAbove(j) == { i \in FileRows : i < j /\ IsAccepted(i) }

RepeatsPhone(j) == \E i \in AcceptedAbove(j) : RowData(i).phone = RowData(j).phone

RepeatsEmail(j) ==
    RowData(j).email # <<>> /\ \E i \in AcceptedAbove(j) : RowData(i).email = RowData(j).email

\* the row has a name and a phone of six digits or more
WellFormed(j) == RowData(j).full_name # <<>> /\ Len(RowData(j).phone) >= 6

(***************************************************************************)
(* C14  Accepted rows share no phone and no email.                         *)
(***************************************************************************)
AcceptedRowsDistinct ==
    \A i, j \in 1..Len(AcceptedRows) :
        i < j => /\ AcceptedRows[i].data.phone # AcceptedRows[j].data.phone
                 /\ AcceptedRows[i].data.email # <<>>
                       => AcceptedRows[i].data.email # AcceptedRows[j].data.email

FirstValidRowAccepted ==
    \A j \in FileRows :
        (WellFormed(j) /\ ~ RepeatsPhone(j) /\ ~ RepeatsEmail(j)) => IsAccepted(j)

\* C14 as stated: no two accepted rows share a canonical phone or a non-empty
\* email; every row below an accepted row with its phone is rejected with
\* DUP_PHONE_IN_FILE, and every row repeating the email of an accepted row above
\* it is rejected with DUP_EMAIL_IN_FILE.
C14_AcceptedRowsShareNothing ==
    Reported =>
        /\ AcceptedRowsDistinct
        /\ FirstValidRowAccepted
        /\ \A j \in FileRows :
              /\ RepeatsPhone(j) => RejectedWith(j, "DUP_PHONE_IN_FILE")
              /\ RepeatsEmail(j) => RejectedWith(j, "DUP_EMAIL_IN_FILE")

\* C14 amended: no two accepted rows share a canonical phone or a non-empty
\* email; a row repeating the phone or the email of an accepted row above it is
\* rejected, with DUP_PHONE_IN_FILE or DUP_EMAIL_IN_FILE unless an earlier rule
\* rejects it first (the name, the phone's digits, and the phone before the email).
C14_AcceptedRowsShareNothingRuleOrder ==
    Reported =>
        /\ AcceptedRowsDistinct
        /\ FirstValidRowAccepted
        /\ \A j \in FileRows :
              /\ (RepeatsPhone(j) \/ RepeatsEmail(j)) => Cardinality(ErrorsOf(j)) = 1 /\ ~ IsAccepted(j)
              /\ (RepeatsPhone(j) /\ RowData(j).full_name # <<>>)
                    => RejectedWith(j, "DUP_PHONE_IN_FILE")
              /\ (RepeatsEmail(j) /\ WellFormed(j) /\ ~ RepeatsPhone(j))
                    => RejectedWith(j, "DUP_EMAIL_IN_FILE")

\* a file of three named rows: the second repeats the phone of the first, the
\* third its email under another phone
C14_Witness ==
    /\ Reported
    /\ Len(response.csv_text) = 3
    /\ IsAccepted(1) /\ WellFormed(2) /\ WellFormed(3)
    /\ RepeatsPhone(2) /\ RepeatsEmail(3) /\ ~ RepeatsPhone(3)
    /\ response.report.rejected_count = 2

\* a row that repeats a phone and has no name
C14_WitnessEarlierRule ==
    /\ Reported
    /\ \E j \in FileRows : RepeatsPhone(j) /\ RowData(j).full_name = <<>>

(***************************************************************************)
(* C15  The order of the validation rules.                                 *)
(***************************************************************************)
RuleCodes ==
    << "MISSING_NAME", "INVALID_PHONE", "INVALID_PHONE", "DUP_PHONE_IN_FILE", "DUP_EMAIL_IN_FILE" >>

RuleFields == << "full_name", "phone", "phone", "phone", "email" >>

\* the rules row j fails, by their rank in the order; a phone or an email counts
\* as seen when an accepted row above carries it
FailedRules(j) ==
    {1 : x \in {y \in {1} : RowData(j).full_name = <<>>}}
      \cup {2 : x \in {y \in {1} : ~ \E i \in 1..Len(RowData(j).phone_raw) : IsDigit(RowData(j).phone_raw[i])}}
      \cup {3 : x \in {y \in {1} : Len(RowData(j).phone) < 6}}
      \cup {4 : x \in {y \in {1} : RepeatsPhone(j)}}
      \cup {5 : x \in {y \in {1} : RepeatsEmail(j)}}

FirstFailed(j) == CHOOSE r \in FailedRules(j) : \A q \in FailedRules(j) : r <= q

\* the entry of a rejected row is the one of the first rule it fails
EntryOfFirstFailed(j) ==
    \A i \in ErrorsOf(j) : LET e == response.report.errors[i] IN
        /\ e.code = RuleCodes[FirstFailed(j)]
        /\ e.field = RuleFields[FirstFailed(j)]
        /\ (FirstFailed(j) = 2) = (e.message = "Telefono vacio o invalido (sin digitos).")
        /\ (FirstFailed(j) = 3) = (e.message = "Telefono muy corto (min 6 digitos).")

\* C15: a row that fails a rule is rejected with exactly one entry, that of the
\* first rule it fails in the order MISSING_NAME, INVALID_PHONE (no digits),
\* INVALID_PHONE (fewer than 6 digits), DUP_PHONE_IN_FILE, DUP_EMAIL_IN_FILE, and
\* is not planned; a row that fails none is planned and has no entry; the phone
\* and the email of a rejected row are not seen by the rows below it.
C15_FirstFailingRuleDecides ==
    Reported =>
        /\ \A j \in FileRows :
              IF FailedRules(j) # {}
              THEN ~ IsAccepted(j) /\ Cardinality(ErrorsOf(j)) = 1 /\ EntryOfFirstFailed(j)
              ELSE IsAccepted(j) /\ ErrorsOf(j) = {}
        /\ \A j \in FileRows :
              (WellFormed(j) /\ \A i \in FileRows :
                                  (i < j /\ (RowData(i).phone = RowData(j).phone
                                              \/ RowData(i).email = RowData(j).email))
                                      => ~ IsAccepted(i))
                  => IsAccepted(j)

\* a row that fails the first three rules at once, then a nameless row whose phone
\* and email the accepted row below it repeats
C15_Witness ==
    /\ Reported
    /\ Len(response.csv_text) = 3
    /\ FailedRules(1) = {1, 2, 3}
    /\ FailedRules(2) = {1}
    /\ RowData(2).phone = RowData(3).phone /\ RowData(2).email = RowData(3).email
    /\ RowData(3).email # <<>>
    /\ IsAccepted(3)

\* a row that fails the rules on repeated phones and emails together
C15_WitnessBothRepeated ==
    /\ Reported
    /\ \E j \in FileRows : FailedRules(j) = {4, 5}

(***************************************************************************)
(* Storage errors.  No statement of the mode appliers is inside a try      *)
(* block, so an exception raised by the store leaves the applier and       *)
(* import_guests_from_csv, the router answers 500 and the session is       *)
(* closed with whatever it had not committed.                              *)
(***************************************************************************)
\* the loop of the mode applier when it reaches the k-th planned row
LoopReaching(mode, db, plan, report, tape, k) ==
    LET done == SubSeq(plan, 1, k - 1) IN
    IF mode = ADD_ONLY THEN AddOnlyLoop(LoopStart(db, report, 0, TRUE), done, tape)
    ELSE IF mode = REPLACE THEN AddOnlyLoop(LoopStart(wipe(db), report, 0, TRUE), done, tape)
    ELSE UpsertLoop(LoopStart(db, report, 0, TRUE), done, tape)

\* applying the row queries the store: get_by_guest_code when a code is
\* generated, db.query(Guest).get when a guest is updated
TouchesStore(mode, st, item) ==
    LET m == MatchRow(st, item.data)
        conflict == /\ item.data.email # <<>>
                    /\ HasKey(st.email_to_id, item.data.email)
                    /\ st.email_to_id[item.data.email] # m.existing_id
    IN  IF m.existing_id = NoId
        THEN ~ conflict /\ CsvCode(item.data) = <<>>
        ELSE mode \in {UPSERT, SYNC} /\ ~ conflict

\* what the commits made before the failure left in the store; failed_row is the
\* planned row being applied, 0 for the last commit of the run
CommittedBefore(mode, db, plan, report, tape, failed_row) ==
    IF mode = REPLACE THEN wipe(db)
    ELSE IF mode = SYNC /\ failed_row = 0 THEN apply_upsert(db, plan, report, tape).db
    ELSE db

\* POST /guests-import, committed, with the store raising while a row is applied
\* or at the last commit
ImportStorageError ==
    /\ response.op = "none"
    /\ runs < MaxRuns
    /\ \E csv_text \in CsvTexts, mode \in import_mode :
         \E vp \in {validate_and_plan(csv_text)} :
            \E tape \in Tapes(csv_text, mode, FALSE, S_BORRAR_TODO), failed_row \in 0..Len(vp.planned) :
               \E st \in {LoopReaching(mode, Session, vp.planned, vp.report, tape,
                                        IF failed_row = 0 THEN Len(vp.planned) + 1 ELSE failed_row)} :
                  /\ st.ok
                  /\ failed_row # 0 => TouchesStore(mode, st, vp.planned[failed_row])
                  /\ \E c \in {CommittedBefore(mode, Session, vp.planned, vp.report, tape, failed_row)} :
                        /\ guests' = c.rows
                        /\ companions' = c.companions
                        /\ rsvp_logs' = c.rsvp_logs
                        /\ nextId' = c.nextId
                  /\ response' = [op |-> "import", mode |-> mode, dry_run |-> FALSE,
                                  confirm_text |-> IF mode \in {SYNC, REPLACE} THEN S_BORRAR_TODO ELSE None,
                                  csv_text |-> csv_text, before |-> Store, raised |-> TRUE,
                                  report |-> EmptyReport, tape |-> <<>>, error |-> "StorageError",
                                  failed_row |-> failed_row]
    /\ runs' = runs + 1
    /\ UNCHANGED <<rsvps, inflight, now>>

\* guests to fail on: a committed ADD_ONLY import
SeedGuests ==
    /\ response.op = "none"
    /\ \E csv_text \in CsvTexts : ImportRequest(csv_text, ADD_ONLY, FALSE, None)

NextFaults == SeedGuests \/ SubmitRsvp \/ ImportStorageError \/ Deliver

SpecFaults == Init /\ [][NextFaults]_vars

StorageFailed == IsImport /\ response.error = "StorageError"

(***************************************************************************)
(* C16  A storage error while a row is applied.                            *)
(***************************************************************************)
\* C16: when the store raises while an ADD_ONLY or UPSERT run applies a row, the
\* run still returns a report, which counts the row as rejected with an entry
\* that carries its row number.
C16_StorageErrorRejectsTheRow ==
    (StorageFailed /\ response.mode \in {ADD_ONLY, UPSERT} /\ response.failed_row > 0) =>
        /\ ~ response.raised
        /\ response.report.rejected_count > 0
        /\ \E i \in 1..Len(response.report.errors) :
              response.report.errors[i].row_number = AcceptedRows[response.failed_row].row_number

(***************************************************************************)
(* C17  One run, one unit of work.                                         *)
(***************************************************************************)
\* C17: a run that fails while it applies its plan leaves the store as it was
\* before the run.
C17_FailureLeavesStoreUntouched ==
    StorageFailed => Store = Before

(***************************************************************************)
(* Two requests in flight.  Each request has its own session: it reads the *)
(* store when its applier builds the indexes, runs its loop in memory and  *)
(* writes at db.commit().  Nothing orders the two sessions.                *)
(***************************************************************************)
\* files of one row
OneRowTexts == { <<r>> : r \in CsvRows }

\* request p enters its mode applier: indexes built from the store as it is now,
\* loop run on the session
BeginRun(p) ==
    /\ inflight[p].phase = "idle"
    /\ runs < MaxRuns
    /\ \E csv_text \in OneRowTexts, mode \in {ADD_ONLY, UPSERT} :
         \E vp \in {validate_and_plan(csv_text)} :
            \E tape \in Tapes(csv_text, mode, FALSE, None) :
               \E st \in {LoopReaching(mode, Session, vp.planned,
                                        [vp.report EXCEPT !.mode = mode, !.dry_run = FALSE],
                                        tape, Len(vp.planned) + 1)} :
                  /\ st.ok
                  /\ inflight' = [inflight EXCEPT ![p] =
                        [phase |-> "applied", mode |-> mode, csv_text |-> csv_text,
                         snapshot |-> guests, session |-> st.db, report |-> st.report,
                         committed_before |-> { q \in Requests : inflight[q].phase = "done" }]]
    /\ runs' = runs + 1
    /\ UNCHANGED <<guests, companions, rsvp_logs, nextId, rsvps, response, now>>

\* UPDATE of the columns the session changed on a guest it had loaded
MergeDirty(stored, loaded, changed) ==
    [f \in DOMAIN stored |-> IF changed[f] # loaded[f] THEN changed[f] ELSE stored[f]]

\* the flush of a session into the table: its updates by primary key, then its inserts
FlushInto(rows, id, snapshot, session) ==
    [i \in 1..Len(rows) |->
        IF RowOfId(session.rows, rows[i].id) = 0 THEN rows[i]
        ELSE MergeDirty(rows[i], snapshot[RowOfId(session.rows, rows[i].id)],
                        session.rows[RowOfId(session.rows, rows[i].id)])]
      \o AssignIds(session.pending, id)

\* request p reaches db.commit() and returns its report
CommitRun(p) ==
    /\ inflight[p].phase = "applied"
    /\ guests' = FlushInto(guests, nextId, inflight[p].snapshot, inflight[p].session)
    /\ nextId' = nextId + Len(inflight[p].session.pending)
    /\ inflight' = [inflight EXCEPT ![p].phase = "done"]
    /\ UNCHANGED <<companions, rsvp_logs, runs, rsvps, response, now>>

ConcurrentRuns == \E p \in Requests : BeginRun(p) \/ CommitRun(p)

NextConcurrent == SeedGuests \/ Deliver \/ ConcurrentRuns

SpecConcurrent == Init /\ [][NextConcurrent]_vars

(***************************************************************************)
(* C18  Concurrent runs are not serialized.                                *)
(***************************************************************************)
\* the canonical phone of the row of a request's file
PhoneOfRequest(p) == map_row_fields(inflight[p].csv_text[1]).phone

\* both requests built their indexes before either committed, and both have
\* committed since
RanTogether(p, q) ==
    /\ p # q
    /\ inflight[p].phase = "done" /\ inflight[q].phase = "done"
    /\ inflight[p].committed_before = {} /\ inflight[q].committed_before = {}

BothCreatedFor(p, q) ==
    /\ inflight[p].report.created_count = 1 /\ inflight[q].report.created_count = 1
    /\ PhoneOfRequest(p) = PhoneOfRequest(q)

\* C18: when two runs build their indexes before either commits and both decide
\* to create a guest for the same canonical phone, the store ends with two guests
\* that share that phone.
C18_ConcurrentRunsDuplicatePhone ==
    \A p, q \in Requests :
        (RanTogether(p, q) /\ BothCreatedFor(p, q)) =>
            \E i, j \in 1..Len(guests) :
                /\ i # j
                /\ guests[i].phone = PhoneOfRequest(p)
                /\ guests[j].phone = PhoneOfRequest(p)

\* the interleaving exists: two runs overlapped, both created, and the store holds
\* nothing but their two guests, under one phone
C18_Witness ==
    /\ RanTogether(1, 2) /\ BothCreatedFor(1, 2)
    /\ Len(guests) = 2
    /\ guests[1].phone = guests[2].phone
    /\ guests[1].id # guests[2].id

(***************************************************************************)
(* C19  The error list accounts for every rejection.                       *)
(***************************************************************************)
ValidationCodes == {"MISSING_NAME", "INVALID_PHONE", "DUP_PHONE_IN_FILE", "DUP_EMAIL_IN_FILE"}

\* the k-th accepted row is rejected when the plan is applied
RejectedWhenApplied(k) ==
    /\ Committed
    /\ EmailOfAnother(k)
    /\ response.mode \in {UPSERT, SYNC} \/ Resolved(k).existing_id = NoId

\* the entry names a row of the file, a field and a code, and is the only entry
\* about that row
EntryIsComplete(e) ==
    /\ \E j \in FileRows : RowNumber(j) = e.row_number /\ Cardinality(ErrorsOf(j)) = 1
    /\ e.field \in {"full_name", "phone", "email"}
    /\ e.code \in ValidationCodes \cup {"EMAIL_CONFLICT"}

\* C19: in every report, rejected_count is the length of the error list; every
\* row rejected by validation or while the plan is applied has exactly one entry,
\* with its row number, a field and a code; and every entry is about such a row.
C19_EveryRejectionHasOneEntry ==
    Reported =>
        /\ response.report.rejected_count = Len(response.report.errors)
        /\ \A i \in 1..Len(response.report.errors) : EntryIsComplete(response.report.errors[i])
        /\ \A j \in FileRows :
              ~ IsAccepted(j) =>
                  /\ Cardinality(ErrorsOf(j)) = 1
                  /\ \A i \in ErrorsOf(j) : response.report.errors[i].code \in ValidationCodes
        /\ \A k \in 1..Len(AcceptedRows) :
              IF RejectedWhenApplied(k)
              THEN RejectedForEmail(AcceptedRows[k])
              ELSE \A i \in 1..Len(response.report.errors) :
                      response.report.errors[i].row_number # AcceptedRows[k].row_number

\* a committed run that rejects one row in validation and one while applying
C19_Witness ==
    /\ Committed
    /\ Len(response.csv_text) = 2
    /\ \E j \in FileRows : ~ IsAccepted(j)
    /\ \E k \in 1..Len(AcceptedRows) : RejectedWhenApplied(k)
    /\ response.report.rejected_count = 2

(***************************************************************************)
(* The magic-link lookup (crud/guests_crud.py).  An accented letter is one *)
(* character of a name; NFKD splits it into its base letter and a          *)
(* combining mark.                                                         *)
(***************************************************************************)
\* unicodedata.normalize("NFKD", ch) for one character
NFKD(ch) ==
    IF ch = "i_acute" THEN <<"i", "combining_acute">>
    ELSE IF ch = "a_acute" THEN <<"a", "combining_acute">>
    ELSE <<ch>>

\* unicodedata.combining(ch) is non-zero
combining(ch) == ch = "combining_acute"

RECURSIVE Decompose(_)
Decompose(s) == IF s = <<>> THEN <<>> ELSE NFKD(Head(s)) \o Decompose(Tail(s))

\* re.sub(r"\s+", " ", txt)
RECURSIVE CollapseSpaces(_)
CollapseSpaces(s) ==
    IF s = <<>> THEN <<>>
    ELSE IF Head(s) \in Whitespace
    THEN <<" ">> \o CollapseSpaces(LStrip(Tail(s)))
    ELSE <<Head(s)>> \o CollapseSpaces(Tail(s))

\* _norm_name
norm_name(s) ==
    Lower(CollapseSpaces(SelectSeq(Decompose(Strip(OrNone(s))), LAMBDA ch : ~ combining(ch))))

\* str.split(): the words between runs of whitespace, as a set
RECURSIVE SplitWords(_, _)
SplitWords(s, word) ==
    IF s = <<>> THEN (IF word = <<>> THEN {} ELSE {word})
    ELSE IF Head(s) \in Whitespace
    THEN (IF word = <<>> THEN {} ELSE {word}) \cup SplitWords(Tail(s), <<>>)
    ELSE SplitWords(Tail(s), Append(word, Head(s)))

\* a variant that keeps the tokens of every length
name_matches_flexibly_any_token(input_name_norm, db_name_norm) ==
    SplitWords(input_name_norm, <<>>) \cap SplitWords(db_name_norm, <<>>) # {}

\* _name_matches_flexibly
name_matches_flexibly(input_name_norm, db_name_norm) ==
    LET input_tokens == { t \in SplitWords(input_name_norm, <<>>) : Len(t) > 2 }
        db_tokens == { t \in SplitWords(db_name_norm, <<>>) : Len(t) > 2 }
    IN  IF input_tokens = {} \/ db_tokens = {} THEN FALSE
        ELSE input_tokens \cap db_tokens # {}

\* the characters func.replace removes from Guest.phone
ReplacedSymbols == {" ", "-", ".", "(", ")", "+"}

\* s[-n:], and substr(x, -n) / right(x, n)
LastChars(s, n) == IF Len(s) <= n THEN s ELSE SubSeq(s, Len(s) - n + 1, Len(s))

\* last4_expr: NULL for a NULL phone
last4_expr(phone) ==
    IF phone = None THEN None
    ELSE LastChars(SelectSeq(phone, LAMBDA c : c \notin ReplacedSymbols), 4)

\* the condition of the warning: both emails are there and they differ
email_differs(g, email) ==
    LET email_norm == Lower(Strip(OrNone(email)))
        g_email_norm == Lower(Strip(OrNone(g.email)))
    IN  email_norm # <<>> /\ g_email_norm # <<>> /\ g_email_norm # email_norm

\* a variant of the decision that lets a differing email block the match
candidate_ok_email_blocks(g, full_name_norm, email) ==
    name_matches_flexibly(full_name_norm, norm_name(g.full_name)) /\ ~ email_differs(g, email)

\* the decision on one candidate: name_ok
candidate_ok(g, full_name_norm, email) ==
    name_matches_flexibly(full_name_norm, norm_name(g.full_name))

\* the loop over the candidates: the first whose name matches, as a list of one
\* guest; the empty list is None
RECURSIVE FirstNameOk(_, _, _)
FirstNameOk(candidates, full_name_norm, email) ==
    IF candidates = <<>> THEN <<>>
    ELSE IF candidate_ok(Head(candidates), full_name_norm, email)
    THEN <<Head(candidates)>>
    ELSE FirstNameOk(Tail(candidates), full_name_norm, email)

\* the guests the loop logs a warning about: those it evaluates whose email differs
RECURSIVE Warned(_, _, _)
Warned(candidates, full_name_norm, email) ==
    IF candidates = <<>> THEN {}
    ELSE (IF email_differs(Head(candidates), email) THEN {Head(candidates).id} ELSE {})
           \cup (IF candidate_ok(Head(candidates), full_name_norm, email) THEN {}
                 ELSE Warned(Tail(candidates), full_name_norm, email))

\* the candidates of the query, in the order the engine returns them
Candidates(rows, phone_last4) ==
    SelectSeq(rows, LAMBDA g : last4_expr(g.phone) = LastChars(normalize_phone(phone_last4), 4))

\* find_guest_for_magic over the table in the order the engine returns its rows
find_guest_for_magic(rows, full_name, phone_last4, email) ==
    IF Len(LastChars(normalize_phone(phone_last4), 4)) # 4 THEN <<>>
    ELSE FirstNameOk(Candidates(rows, phone_last4), norm_name(full_name), email)

N_AnaGarcia == <<"A","n","a"," ","G","a","r","c","i_acute","a">>
N_LiWu == <<"L","i"," ","W","u">>
N_ana_garcia == <<"a","n","a"," ","g","a","r","c","i","a">>
N_GARCIA_de == <<" ","G","A","R","C","I","A"," "," ","d","e">>
N_EvaLi == <<"E","v","a"," ","l","i">>

StoredNames == {N_AnaGarcia, N_LiWu, T_Ana}

InputNames == {N_ana_garcia, N_GARCIA_de, N_EvaLi, Lower(N_LiWu)}

\* phones as the import and the RSVP form leave them in the table
StoredPhones ==
    { T_Phone1, <<"1","1","-","1","1">>, <<"1","/","1","1","1">>, <<"2","2","2">>, None }

Last4Inputs ==
    { <<"1","1","1","1">>, <<" ","1","1",".","1","1">>, <<"1","1","1">>, <<"9","1","1","1","1">>,
      <<"2","2","2","2">> }

\* a guest as the import creates it, with the name and phone it has now
MagicGuest(id, full_name, phone) ==
    [NewGuest(id, map_row_fields(CsvRow(T_Ana, T_Phone1, <<>>, <<>>)),
              resolve_enums(map_row_fields(CsvRow(T_Ana, T_Phone1, <<>>, <<>>))), <<>>)
        EXCEPT !.full_name = full_name, !.phone = phone]

\* the email a guest has in the table, and the email of a request
StoredEmails == { None, <<"b","@","x">> }

EmailInputs == { None, T_Email, <<"B","@","x"," ">> }

MagicStores ==
    UNION { { [i \in 1..n |-> [MagicGuest(i, names[i], phones[i]) EXCEPT !.email = emails[i]]] :
                names \in [1..n -> StoredNames], phones \in [1..n -> StoredPhones],
                emails \in [1..n -> StoredEmails] } : n \in 0..MaxRows }

InitMagic ==
    /\ guests \in MagicStores
    /\ companions = {}
    /\ rsvp_logs = {}
    /\ nextId = Len(guests) + 1
    /\ runs = 0
    /\ rsvps = 0
    /\ response = NoResponse
    /\ inflight = [p \in Requests |-> Idle]
    /\ now = 0

\* the orders in which a query without ORDER BY can return n rows
RetrievalOrders(n) == { f \in [1..n -> 1..n] : \A i, j \in 1..n : i # j => f[i] # f[j] }

\* one call of find_guest_for_magic
FindGuestForMagic ==
    /\ response.op = "none"
    /\ \E full_name \in InputNames, phone_last4 \in Last4Inputs, email \in EmailInputs :
         \E order \in RetrievalOrders(Len(guests)) :
            \E rows \in {[i \in 1..Len(guests) |-> guests[order[i]]]} :
               response' = [op |-> "magic", full_name |-> full_name, phone_last4 |-> phone_last4,
                            email |-> email, retrieved |-> rows,
                            result |-> find_guest_for_magic(rows, full_name, phone_last4, email),
                            warned |-> IF Len(LastChars(normalize_phone(phone_last4), 4)) # 4 THEN {}
                                       ELSE Warned(Candidates(rows, phone_last4),
                                                   norm_name(full_name), email)]
    /\ UNCHANGED <<guests, companions, rsvp_logs, nextId, runs, rsvps, inflight, now>>

NextMagic == FindGuestForMagic \/ Deliver

SpecMagic == InitMagic /\ [][NextMagic]_vars

(***************************************************************************)
(* C20  What find_guest_for_magic returns.                                 *)
(***************************************************************************)
IsMagic == response.op = "magic"

\* the four digits the caller supplied: the last four of the digits of the input
SuppliedDigits == LastChars(SelectSeq(OrNone(response.phone_last4), IsDigit), 4)

EndsWith(s, suffix) ==
    Len(s) >= Len(suffix) /\ SubSeq(s, Len(s) - Len(suffix) + 1, Len(s)) = suffix

\* the words of a normalized name that are longer than 2 characters: the maximal
\* runs of characters other than the space
LongTokens(n) ==
    { SubSeq(n, a, b) : <<a, b>> \in
        { ab \in (1..Len(n)) \X (1..Len(n)) :
            /\ ab[2] - ab[1] + 1 > 2
            /\ \A i \in ab[1]..ab[2] : n[i] # " "
            /\ ab[1] = 1 \/ n[ab[1] - 1] = " "
            /\ ab[2] = Len(n) \/ n[ab[2] + 1] = " " } }

SharesLongToken(g) ==
    LongTokens(norm_name(response.full_name)) \cap LongTokens(norm_name(g.full_name)) # {}

\* the stored phone, without the symbols, ends in the four supplied digits
PhoneEndsInDigits(g) ==
    /\ Len(SuppliedDigits) = 4
    /\ g.phone # None
    /\ EndsWith(SelectSeq(g.phone, LAMBDA c : c \notin ReplacedSymbols), SuppliedDigits)
    /\ EndsWith(SelectSeq(g.phone, IsDigit), SuppliedDigits)

Qualifies(g) == PhoneEndsInDigits(g) /\ SharesLongToken(g)

C20_WitnessShortTokens ==
    /\ IsMagic
    /\ response.full_name = N_EvaLi
    /\ \E g \in GuestSet(response.retrieved) : g.full_name = N_LiWu /\ PhoneEndsInDigits(g)
    /\ response.result = <<>>

(***************************************************************************)
(* C21  The last-4 input must reduce to four digits.                       *)
(***************************************************************************)
\* the digits of the last-4 input, all of them
InputDigits == SelectSeq(OrNone(response.phone_last4), IsDigit)

\* C21: when the last-4 input reduces to fewer or to more than four digits, no
\* guest is returned.
C21_RejectsUnlessFourDigits ==
    (IsMagic /\ Len(InputDigits) # 4) => response.result = <<>>

(***************************************************************************)
(* C22  The email never decides.                                           *)
(***************************************************************************)
\* the rows the query returned, as they would be without their emails
WithoutEmails(rows) == [i \in 1..Len(rows) |-> [rows[i] EXCEPT !.email = None]]

\* C22: for the store, the name and the digits of a call, every email argument
\* gives the result the call gave, and the guest returned is the one that would
\* be returned if no guest had an email.
C22_EmailNeverChangesResult ==
    IsMagic =>
        /\ \A e \in EmailInputs :
              find_guest_for_magic(response.retrieved, response.full_name, response.phone_last4, e)
                  = response.result
        /\ WithoutEmails(response.result)
              = find_guest_for_magic(WithoutEmails(response.retrieved), response.full_name,
                                     response.phone_last4, response.email)

\* a guest is returned although its email and the email of the request are both
\* there and differ; the difference was logged
C22_Witness ==
    /\ IsMagic
    /\ response.result # <<>>
    /\ response.email # None
    /\ response.result[1].email # None
    /\ Lower(Strip(response.email)) # response.result[1].email
    /\ response.result[1].id \in response.warned

(***************************************************************************)
(* The pure helpers, applied to inputs drawn from bounded sets.            *)
(***************************************************************************)
MaxPhoneLen == 3

PhoneAlphabet == {"0", "1", " ", "+", "a"}

\* None and every string over the alphabet up to the bound
PhoneInputs == {None} \cup UNION { [1..n -> PhoneAlphabet] : n \in 0..MaxPhoneLen }

\* one call of normalize_phone
NormalizePhone ==
    /\ response.op = "none"
    /\ \E x \in PhoneInputs :
         response' = [op |-> "normalize_phone", input |-> x, output |-> normalize_phone(x),
                      again |-> normalize_phone(normalize_phone(x))]
    /\ UNCHANGED <<guests, companions, rsvp_logs, nextId, runs, rsvps, inflight, now>>

\* invite-scope values: None, empty, whitespace, the three known words (also in
\* another case and with blanks around), and unknown text
InviteTypeInputs ==
    { None, <<>>, <<" "," "," ">>, S_full, S_party, S_ceremony,
      <<" ","F","u","l","l"," ">>, <<"C","E","R","E","M","O","N","Y">>, <<"P","a","r","t","y">>,
      <<"f","u","l">>, <<"r","e","c","e","p","t","i","o","n">> }

\* language cells: empty, whitespace, the known languages and unknown text
LanguageInputs == { <<>>, <<" ">>, S_en, <<"E","S">>, <<" ","r","o">>, <<"f","r">>, <<"e","n","g">> }

\* one row with the given invite scope and language goes through
\* normalize_invite_type, _map_row_fields, _resolve_enums and _validate_and_plan
ResolveEnums ==
    /\ response.op = "none"
    /\ \E invite_type \in InviteTypeInputs, language \in LanguageInputs :
         \E row \in {[CsvRow(T_Ana, T_Phone1, <<>>, <<>>) EXCEPT !.invite_type = invite_type,
                                                              !.language = language]} :
            response' = [op |-> "resolve_enums", invite_type |-> invite_type,
                         language |-> language,
                         normalized |-> normalize_invite_type(invite_type),
                         enums |-> resolve_enums(map_row_fields(row)),
                         validation |-> validate_and_plan(<<row>>)]
    /\ UNCHANGED <<guests, companions, rsvp_logs, nextId, runs, rsvps, inflight, now>>

NextPure == NormalizePhone \/ ResolveEnums \/ Deliver

SpecPure == Init /\ [][NextPure]_vars

IsNormalizePhone == response.op = "normalize_phone"

(***************************************************************************)
(* C23  normalize_phone is idempotent.                                     *)
(***************************************************************************)
\* C23: normalizing the result of normalize_phone gives that result again.
C23_NormalizePhoneIdempotent ==
    IsNormalizePhone => response.again = response.output

\* an input with symbols around and between its digits, one of them a zero in front
C23_Witness ==
    /\ IsNormalizePhone
    /\ response.input # None
    /\ response.output # <<>>
    /\ response.output # response.input
    /\ Head(response.output) = "0"
    /\ response.again = response.output

(***************************************************************************)
(* C24  normalize_phone returns the digits of its input.                   *)
(***************************************************************************)
\* the positions of the digits of the input
DigitPositions(x) == { i \in 1..Len(x) : x[i] \in Digits }

\* the k-th digit position from the left
NthDigitPosition(x, k) ==
    CHOOSE i \in DigitPositions(x) : Cardinality({ j \in DigitPositions(x) : j <= i }) = k

\* C24: normalize_phone returns a string for every input: the empty string for
\* None and for an input without a digit, otherwise the digits of the input in
\* their order.
C24_NormalizePhoneKeepsDigits ==
    IsNormalizePhone =>
        IF response.input = None
        THEN response.output = <<>>
        ELSE /\ Len(response.output) = Cardinality(DigitPositions(response.input))
             /\ \A k \in 1..Len(response.output) :
                   response.output[k] = response.input[NthDigitPosition(response.input, k)]

\* digits kept in their order around a symbol
C24_Witness ==
    /\ IsNormalizePhone
    /\ response.input = <<"1", "+", "0">>
    /\ response.output = <<"1", "0">>

\* nothing but symbols and whitespace
C24_WitnessNoDigits ==
    /\ IsNormalizePhone
    /\ response.input = <<" ", "+", "a">>
    /\ response.output = <<>>

(***************************************************************************)
(* The assisted RSVP of the admin panel:                                   *)
(* POST /api/admin/guests/{guest_id}/rsvp.                                 *)
(***************************************************************************)
MaxAdminRsvp == 2

\* the value of a key of the request body, or the default of the schema when
\* the body leaves the key out
Field(body, key, default) == IF key \in DOMAIN body THEN body[key] ELSE default

\* the payload the handler receives for a request body: optional keys left out
\* are None, a companions key left out is the empty list
RSVPUpdateRequest(body) ==
    [ attending  |-> body.attending,
      allergies  |-> Field(body, "allergies", None),
      notes      |-> Field(body, "notes", None),
      email      |-> Field(body, "email", None),
      phone      |-> Field(body, "phone", None),
      companions |-> Field(body, "companions", <<>>) ]

\* request bodies: a full confirmation with an adult and a child, an edit of the
\* notes alone, a cancellation, and a cancellation that still lists a companion
AdminRsvpBodies ==
    { [attending |-> TRUE, allergies |-> <<"g">>, notes |-> <<"n">>,
       companions |-> << [name |-> <<"C","1">>, is_child |-> FALSE],
                         [name |-> <<"C","2">>, is_child |-> TRUE] >>],
      [attending |-> TRUE, notes |-> <<"m">>],
      [attending |-> FALSE, allergies |-> None, companions |-> <<>>],
      [attending |-> FALSE, allergies |-> <<"g">>, notes |-> <<"n">>,
       companions |-> << [name |-> <<"C","3">>, is_child |-> FALSE] >>] }

\* guests as the import creates them, allowed no companion or two
RsvpStores ==
    UNION { { [i \in 1..n |-> [MagicGuest(i, T_Ana, T_Phone1) EXCEPT !.max_accomp = allowed[i]]] :
                allowed \in [1..n -> {0, 2}] } : n \in 1..MaxRows }

InitRsvp ==
    /\ guests \in RsvpStores
    /\ companions = {}
    /\ rsvp_logs = {}
    /\ nextId = Len(guests) + 1
    /\ runs = 0
    /\ rsvps = 0
    /\ response = NoResponse
    /\ inflight = [p \in Requests |-> Idle]
    /\ now = 0

\* submit_admin_rsvp: 404 for an unknown guest, 400 when process_rsvp_submission
\* refuses the companions, otherwise the update of update_rsvp and its log entry
SubmitAdminRsvp ==
    /\ response.op = "none"
    /\ rsvps < MaxAdminRsvp
    /\ \E guest_id \in 1..(Len(guests) + 1), body \in AdminRsvpBodies :
         \E payload \in {RSVPUpdateRequest(body)} :
            \E status \in { IF guest_id > Len(guests) THEN 404
                            ELSE IF RsvpRejected(guests[guest_id], payload) THEN 400 ELSE 200 } :
               /\ response' = [op |-> "rsvp", guest_id |-> guest_id, body |-> body,
                               status |-> status, before |-> guests,
                               companions_before |-> companions]
               /\ IF status = 200
                  THEN /\ guests' = [guests EXCEPT ![guest_id] =
                                        update_rsvp_guest(@, payload.attending, payload,
                                                          Timestamp(rsvps + 1))]
                       /\ companions' = update_rsvp_companions(companions, guests[guest_id],
                                                               payload.attending, payload)
                       /\ rsvp_logs' = rsvp_logs \cup {[n |-> rsvps + 1, guest_id |-> guest_id,
                                                        action_type |-> "update_rsvp"]}
                  ELSE UNCHANGED <<guests, companions, rsvp_logs>>
    /\ rsvps' = rsvps + 1
    /\ UNCHANGED <<nextId, runs, inflight, now>>

NextRsvp == SubmitAdminRsvp \/ Deliver

SpecRsvp == InitRsvp /\ [][NextRsvp]_vars

IsRsvp == response.op = "rsvp"

\* the request was carried out
RsvpDone == IsRsvp /\ response.status = 200

(***************************************************************************)
(* C25  An assisted update that leaves the companions key out.             *)
(***************************************************************************)
\* C25: after an assisted update with attending=true whose body leaves the
\* companions key out, the guest has the companions it had before, and the
\* notes of the body.
C25_OmittedCompanionsKept ==
    (RsvpDone /\ response.body.attending /\ "companions" \notin DOMAIN response.body) =>
        /\ CompanionsOf(companions, response.guest_id)
              = CompanionsOf(response.companions_before, response.guest_id)
        /\ guests[response.guest_id].notes = response.body.notes

(***************************************************************************)
(* C26  An update with attending=false clears the RSVP data.               *)
(***************************************************************************)
\* C26: after an update with attending=false the guest has confirmed false, no
\* companions, no allergies, and zero adults and children, whatever it had
\* before.
C26_DeclineClearsRsvp ==
    (RsvpDone /\ ~ response.body.attending) =>
        /\ guests[response.guest_id].confirmed = B_False
        /\ CompanionsOf(companions, response.guest_id) = {}
        /\ guests[response.guest_id].allergies = None
        /\ guests[response.guest_id].num_adults = 0
        /\ guests[response.guest_id].num_children = 0

\* a guest that had confirmed with two companions and allergies cancels
C26_Witness ==
    /\ RsvpDone
    /\ ~ response.body.attending
    /\ response.before[response.guest_id].confirmed = B_True
    /\ response.before[response.guest_id].allergies = <<"g">>
    /\ response.before[response.guest_id].num_children = 1
    /\ Cardinality(CompanionsOf(response.companions_before, response.guest_id)) = 2
    /\ CompanionsOf(companions, response.guest_id) = {}
    /\ guests[response.guest_id].allergies = None

\* a cancellation whose body still carries allergies and a companion
C26_WitnessBodyIgnored ==
    /\ RsvpDone
    /\ ~ response.body.attending
    /\ response.body.allergies = <<"g">>
    /\ response.body.companions # <<>>
    /\ guests[response.guest_id].allergies = None
    /\ guests[response.guest_id].num_adults = 0

(***************************************************************************)
(* C27  Invite scope and language always resolve, and reject no row.       *)
(***************************************************************************)
IsResolveEnums == response.op = "resolve_enums"

\* the value is the given word, whatever its case and the blanks around it
Spells(value, word) == value # None /\ Lower(Strip(value)) = word

C27_WitnessEmpty ==
    /\ IsResolveEnums
    /\ response.invite_type = None
    /\ response.language = <<" ">>
    /\ response.normalized = S_party
    /\ response.enums.lang = S_en

(***************************************************************************)
(* The retry loop of _generate_guest_code, one draw and one check at a     *)
(* time, with the uniqueness check its callers supply                      *)
(* (lambda c: get_by_guest_code(db, c) is None).                           *)
(***************************************************************************)
\* names a code is generated for: one with letters, one without any
GenerateNames == { T_Ana, <<"1">> }

\* codes the stored guests hold
StoredCodes ==
    { GuestCodeOf(name, suffix) : name \in GenerateNames, suffix \in SuffixDraws }

GenerateStores ==
    UNION { { [i \in 1..n |-> [MagicGuest(i, T_Ana, T_Phone1) EXCEPT !.guest_code = codes[i]]] :
                codes \in [1..n -> StoredCodes] } : n \in 0..MaxRows }

InitGenerate ==
    /\ guests \in GenerateStores
    /\ companions = {}
    /\ rsvp_logs = {}
    /\ nextId = Len(guests) + 1
    /\ runs = 0
    /\ rsvps = 0
    /\ response = NoResponse
    /\ inflight = [p \in Requests |-> Idle]
    /\ now = 0

\* the call enters the loop
BeginGenerateCode ==
    /\ response.op = "none"
    /\ \E full_name \in GenerateNames :
         response' = [op |-> "generate", pc |-> "draw", full_name |-> full_name,
                      suffix |-> <<>>, collided |-> FALSE, result |-> <<>>]
    /\ UNCHANGED <<guests, companions, rsvp_logs, nextId, runs, rsvps, inflight, now>>

\* suffix = "".join(secrets.choice(alphabet) for _ in range(4))
DrawSuffix(suffix) ==
    /\ response.op = "generate"
    /\ response.pc = "draw"
    /\ response' = [response EXCEPT !.pc = "check", !.suffix = suffix]
    /\ UNCHANGED <<guests, companions, rsvp_logs, nextId, runs, rsvps, inflight, now>>

\* if is_unique_callable(code): return code; otherwise the loop goes round
CheckUnique ==
    /\ response.op = "generate"
    /\ response.pc = "check"
    /\ response' = IF generate_guest_code_returns(response.full_name, guests, response.suffix)
                   THEN [response EXCEPT !.pc = "returned",
                                         !.result = GuestCodeOf(response.full_name, response.suffix)]
                   ELSE [response EXCEPT !.pc = "draw", !.collided = TRUE]
    /\ UNCHANGED <<guests, companions, rsvp_logs, nextId, runs, rsvps, inflight, now>>

\* the caller has the code
ReturnCode ==
    /\ response.op = "generate"
    /\ response.pc = "returned"
    /\ response' = NoResponse
    /\ UNCHANGED <<guests, companions, rsvp_logs, nextId, runs, rsvps, inflight, now>>

NextGenerate ==
    \/ BeginGenerateCode
    \/ \E suffix \in SuffixDraws : DrawSuffix(suffix)
    \/ CheckUnique
    \/ ReturnCode

SpecGenerate == InitGenerate /\ [][NextGenerate]_vars

\* the loop always gets to its next statement, and the random source is fair:
\* a suffix that can be drawn again and again is drawn
SpecGenerateFair ==
    /\ SpecGenerate
    /\ WF_vars(CheckUnique)
    /\ \A suffix \in SuffixDraws : SF_vars(DrawSuffix(suffix))

(***************************************************************************)
(* C28  What _generate_guest_code returns, and when it returns.            *)
(***************************************************************************)
InGenerate == response.op = "generate"

GenerateReturned == InGenerate /\ response.pc = "returned"

\* the supplied check accepts the code
IsUniqueCode(code) == \A i \in 1..Len(guests) : guests[i].guest_code # code

\* a suffix for the prefix of the name is not in use
SomeSuffixFree ==
    \E suffix \in SuffixDraws : IsUniqueCode(GuestCodeOf(response.full_name, suffix))

\* C28: the code returned is the prefix of the name with the last suffix drawn,
\* and no stored guest holds it; after a collision the loop draws a suffix
\* again instead of returning; and when the random choice is fair, a call made
\* while some suffix for the prefix is free returns.
C28_GenerateReturnsUniqueAndTerminates ==
    /\ [](GenerateReturned =>
             /\ IsUniqueCode(response.result)
             /\ response.result = slug7(response.full_name) \o <<"-">> \o response.suffix
             /\ response.suffix \in SuffixDraws)
    /\ [][(InGenerate /\ response.pc = "check"
             /\ ~ IsUniqueCode(GuestCodeOf(response.full_name, response.suffix)))
          => (response'.pc = "draw" /\ response'.result = <<>>)]_vars
    /\ ((InGenerate /\ SomeSuffixFree) ~> GenerateReturned)

\* a code returned after a collision
C28_Witness ==
    /\ GenerateReturned
    /\ response.collided
    /\ Len(guests) > 0
    /\ IsUniqueCode(response.result)

\* every suffix of the prefix is in use: the loop has collided and draws again
C28_WitnessAllInUse ==
    /\ InGenerate
    /\ response.pc = "draw"
    /\ response.collided
    /\ ~ SomeSuffixFree

(***************************************************************************)
(* Magic-link tokens: set_magic_link, consume_magic_link and the clock.    *)
(***************************************************************************)
\* the last reading of the clock
MaxNow == 4

\* tokens issued per guest
MaxTokens == 2

\* datetime.utcnow() at clock reading `at`
UtcTime(at) == <<"utc", at>>

\* the validity window, in clock readings (the route passes MAGIC_EXPIRE_MIN)
ttl_minutes == 2

\* create_magic_token: a signed token that names its guest; `serial` tells the
\* tokens of one guest apart
MagicToken(guest_id, serial) == <<"jwt", guest_id, serial>>

Tokens(rows) == { MagicToken(rows[i].id, serial) : i \in 1..Len(rows), serial \in 1..MaxTokens }

\* a guest with the magic-link columns of the table, all empty, and two history
\* fields kept for verification: the token the current one replaced, and how
\* often the current token has been redeemed
TokenGuest(id) ==
    MagicGuest(id, T_Ana, T_Phone1)
        @@ [ magic_link_token |-> None, magic_link_sent_at |-> None,
             magic_link_expires_at |-> None, magic_link_used_at |-> None,
             replaced_token |-> None, redeemed |-> 0 ]

\* variant: a token that was used is accepted again
consume_magic_link_ignores_used(rows, token, at) ==
    LET hits == { i \in 1..Len(rows) : rows[i].magic_link_token = token } IN
    IF hits = {} \/ (\E i \in hits : rows[i].magic_link_expires_at # None
                                      /\ rows[i].magic_link_expires_at[2] < at)
    THEN [result |-> <<>>, rows |-> rows]
    ELSE LET i == CHOOSE j \in hits : \A k \in hits : j <= k
             g == [rows[i] EXCEPT !.magic_link_used_at = UtcTime(at), !.redeemed = @ + 1]
         IN  [result |-> <<g>>, rows |-> [rows EXCEPT ![i] = g]]

\* set_magic_link: the guest row with the token, its issue and expiry times, and
\* the mark of use reset
set_magic_link(guest, token, ttl, at) ==
    [guest EXCEPT !.magic_link_token = token,
                  !.magic_link_sent_at = UtcTime(at),
                  !.magic_link_expires_at = UtcTime(at + ttl),
                  !.magic_link_used_at = None,
                  !.replaced_token = guest.magic_link_token,
                  !.redeemed = 0]

\* consume_magic_link: the guest holding the token, marked used, when the token
\* is held, unused and not past its expiry; otherwise nothing, and no change
consume_magic_link(rows, token, at) ==
    LET hits == { i \in 1..Len(rows) : rows[i].magic_link_token = token } IN
    IF hits = {} THEN [result |-> <<>>, rows |-> rows]
    ELSE LET i == CHOOSE j \in hits : \A k \in hits : j <= k IN
         IF rows[i].magic_link_used_at # None THEN [result |-> <<>>, rows |-> rows]
         ELSE IF rows[i].magic_link_expires_at # None /\ rows[i].magic_link_expires_at[2] < at
         THEN [result |-> <<>>, rows |-> rows]
         ELSE LET g == [rows[i] EXCEPT !.magic_link_used_at = UtcTime(at), !.redeemed = @ + 1]
              IN  [result |-> <<g>>, rows |-> [rows EXCEPT ![i] = g]]

TokenStores == { [i \in 1..n |-> TokenGuest(i)] : n \in 1..MaxRows }

InitToken ==
    /\ guests \in TokenStores
    /\ companions = {}
    /\ rsvp_logs = {}
    /\ nextId = Len(guests) + 1
    /\ runs = 0
    /\ rsvps = 0
    /\ response = NoResponse
    /\ inflight = [p \in Requests |-> Idle]
    /\ now = 0

\* time passes
Tick ==
    /\ now < MaxNow
    /\ now' = now + 1
    /\ UNCHANGED <<guests, companions, rsvp_logs, nextId, runs, rsvps, response, inflight>>

\* request_access issues a token for a guest and stores it
SetMagicLink ==
    /\ response.op = "none"
    /\ \E i \in 1..Len(guests), serial \in 1..MaxTokens :
         /\ guests' = [guests EXCEPT ![i] =
                          set_magic_link(@, MagicToken(@.id, serial), ttl_minutes, now)]
         /\ response' = [op |-> "set_magic_link", guest_id |-> guests[i].id,
                         token |-> MagicToken(guests[i].id, serial), before |-> guests, at |-> now]
    /\ UNCHANGED <<companions, rsvp_logs, nextId, runs, rsvps, inflight, now>>

\* magic_login redeems a token
ConsumeMagicLink ==
    /\ response.op = "none"
    /\ \E token \in Tokens(guests) :
         \E r \in {consume_magic_link(guests, token, now)} :
            /\ guests' = r.rows
            /\ response' = [op |-> "consume_magic_link", token |-> token, result |-> r.result,
                            before |-> guests, at |-> now]
    /\ UNCHANGED <<companions, rsvp_logs, nextId, runs, rsvps, inflight, now>>

NextToken == Tick \/ SetMagicLink \/ ConsumeMagicLink \/ Deliver

SpecToken == InitToken /\ [][NextToken]_vars

(***************************************************************************)
(* C29  A magic-link token is redeemed once, in time, and only while it is *)
(* the guest's current token.                                              *)
(***************************************************************************)
IsConsume == response.op = "consume_magic_link"

\* the guests that held the token when consume_magic_link was called
HeldBy == { i \in 1..Len(response.before) : response.before[i].magic_link_token = response.token }

\* the token was unused and not past its expiry when the call was made
Redeemable(i) ==
    /\ response.before[i].magic_link_used_at = None
    /\ response.before[i].magic_link_expires_at[2] >= response.at

\* C29: a token is redeemed at most once per issue.  A consume_magic_link call on
\* a token that is held, unused and not past its expiry returns the guest and
\* marks it used at the time of the call, leaving every other guest alone; any
\* other call (a token already used, a token past its expiry, a token replaced
\* by a newer one) returns nothing and changes nothing.
C29_TokenSingleUse ==
    /\ \A i \in 1..Len(guests) : guests[i].redeemed <= 1
    /\ IsConsume =>
          /\ IF \E i \in HeldBy : Redeemable(i)
             THEN \E i \in HeldBy :
                     /\ response.result = <<guests[i]>>
                     /\ guests[i].magic_link_used_at = UtcTime(response.at)
                     /\ guests[i].magic_link_token = response.token
                     /\ \A j \in 1..Len(guests) : j # i => guests[j] = response.before[j]
             ELSE response.result = <<>> /\ guests = response.before
          /\ \A i \in 1..Len(guests) :
                (response.before[i].replaced_token = response.token
                   /\ response.before[i].magic_link_token # response.token)
                => response.result = <<>>

\* the second call on a token that was redeemed: nothing returned
C29_Witness ==
    /\ IsConsume
    /\ response.result = <<>>
    /\ \E i \in HeldBy : /\ response.before[i].redeemed = 1
                         /\ response.before[i].magic_link_used_at # None
                         /\ response.before[i].magic_link_expires_at[2] >= response.at
    /\ guests = response.before

\* a token redeemed at the very reading it expires, on a store of two guests
C29_WitnessRedeemed ==
    /\ IsConsume
    /\ Len(guests) = 2
    /\ response.result # <<>>
    /\ response.result[1].magic_link_expires_at = UtcTime(response.at)
    /\ response.result[1].redeemed = 1

\* an unused token past its expiry
C29_WitnessExpired ==
    /\ IsConsume
    /\ response.result = <<>>
    /\ \E i \in HeldBy : /\ response.before[i].magic_link_used_at = None
                         /\ response.before[i].magic_link_expires_at[2] < response.at

\* the token a newer one replaced, while the newer one is unused and in time
C29_WitnessReplaced ==
    /\ IsConsume
    /\ response.result = <<>>
    /\ \E i \in 1..Len(guests) :
          /\ response.before[i].replaced_token = response.token
          /\ response.before[i].magic_link_token # response.token
          /\ response.before[i].magic_link_used_at = None
          /\ response.before[i].magic_link_expires_at[2] >= response.at

(***************************************************************************)
(* C30  The four counts of a committed run cover every row of the file.    *)
(***************************************************************************)
\* C30: for a committed run in any mode, created_count + updated_count +
\* skipped_count + rejected_count is the number of data rows of the file.
C30_CountsCoverEveryRow ==
    Committed =>
        response.report.created_count + response.report.updated_count
            + response.report.skipped_count + response.report.rejected_count
          = Len(response.csv_text)

====
